---- MODULE Spec2Model ----
(***************************************************************************)
(* Model of gh-checkproxy's `pr checks` client: flag validation, pull      *)
(* request resolution, paginated check-run retrieval, combined-status      *)
(* retrieval, aggregation into unified checks and bucket counts, the       *)
(* watch loop, the exit code, and the display order of the checks.         *)
(*                                                                         *)
(* Strings that the code converts, parses or orders (strings.ToUpper,      *)
(* strings.ToLower, strings.EqualFold, strconv.Atoi, the selector tests,   *)
(* the < of sortChecks) are sequences of one-character strings, so that    *)
(* the operation is computed character by character.  Strings that are     *)
(* only compared for equality (check names and status contexts in the      *)
(* aggregation, SHAs) are plain TLA+ strings.  Numbers parsed from text    *)
(* are kept as decimal text.  Time instants are naturals; 0 is Go's zero   *)
(* time.Time (a run with no started_at).                                   *)
(***************************************************************************)
EXTENDS Integers, Sequences, FiniteSets, TLC

----------------------------------------------------------------------------
(* Bounds of the model *)

\* greatest start time an upstream check-run carries (0 = no start time)
MaxTime == 2
\* greatest number of raw check-runs handed to one aggregation (SpecAgg)
MaxRuns == 3
\* greatest number of raw commit statuses handed to one aggregation (SpecAgg)
MaxStatuses == 2
\* greatest number of check-run pages the upstream serves for one fetch
MaxPages == 2
\* greatest number of fetch cycles the upstream keeps checks pending for
MaxCycles == 2
\* greatest number of checks handed to sortChecks (SpecSort); sort.Slice is an
\* insertion sort up to 12 elements
MaxChecks == 3
\* greatest length of the short decimal numbers among the selectors (SpecResolve)
MaxDigits == 2

----------------------------------------------------------------------------
(* Program constants *)

pendingExitCode == 8

----------------------------------------------------------------------------
(* Character strings *)

Lowers == <<"a","b","c","d","e","f","g","h","i","j","k","l","m",
            "n","o","p","q","r","s","t","u","v","w","x","y","z">>
Uppers == <<"A","B","C","D","E","F","G","H","I","J","K","L","M",
            "N","O","P","Q","R","S","T","U","V","W","X","Y","Z">>

IndexIn(alphabet, ch) ==
    IF \E i \in DOMAIN alphabet : alphabet[i] = ch
    THEN CHOOSE i \in DOMAIN alphabet : alphabet[i] = ch
    ELSE 0

UpperChar(ch) == IF IndexIn(Lowers, ch) # 0 THEN Uppers[IndexIn(Lowers, ch)] ELSE ch
LowerChar(ch) == IF IndexIn(Uppers, ch) # 0 THEN Lowers[IndexIn(Uppers, ch)] ELSE ch

\* strings.ToUpper
ToUpper(s) == [i \in DOMAIN s |-> UpperChar(s[i])]
\* strings.ToLower
ToLower(s) == [i \in DOMAIN s |-> LowerChar(s[i])]
\* strings.EqualFold (simple case folding of each character)
EqualFold(s, t) ==
    /\ Len(s) = Len(t)
    /\ \A i \in DOMAIN s : LowerChar(s[i]) = LowerChar(t[i])

----------------------------------------------------------------------------
(* String literals of the source, as character sequences *)

str_empty == << >>
str_completed == <<"c","o","m","p","l","e","t","e","d">>
\* case labels of checkFromRun
str_SUCCESS == <<"S","U","C","C","E","S","S">>
str_SKIPPED == <<"S","K","I","P","P","E","D">>
str_NEUTRAL == <<"N","E","U","T","R","A","L">>
str_FAILURE == <<"F","A","I","L","U","R","E">>
str_ERROR == <<"E","R","R","O","R">>
str_TIMED_OUT == <<"T","I","M","E","D","_","O","U","T">>
str_ACTION_REQUIRED == <<"A","C","T","I","O","N","_","R","E","Q","U","I","R","E","D">>
str_CANCELLED == <<"C","A","N","C","E","L","L","E","D">>
\* case labels of checkFromStatus
str_success == <<"s","u","c","c","e","s","s">>
str_failure == <<"f","a","i","l","u","r","e">>
str_error == <<"e","r","r","o","r">>

----------------------------------------------------------------------------
(* Aggregation: checkFromRun, checkFromStatus, incrementCounts,            *)
(* sortCheckRunsByTime, fetchAndAggregateChecks (after both retrievals)    *)

\* checkCounts{} : the zero value
zeroCounts == [Failed |-> 0, Passed |-> 0, Pending |-> 0, Skipping |-> 0, Canceled |-> 0]

\* runBucket comparing the state as spelled, without strings.ToUpper
runBucket_caseSensitive(state) ==
    IF state = str_SUCCESS THEN "pass"
    ELSE IF state = str_SKIPPED \/ state = str_NEUTRAL THEN "skipping"
    ELSE IF state = str_FAILURE \/ state = str_ERROR \/ state = str_TIMED_OUT
            \/ state = str_ACTION_REQUIRED THEN "fail"
    ELSE IF state = str_CANCELLED THEN "cancel"
    ELSE "pending"

\* the switch of checkFromRun on strings.ToUpper(state)
runBucket(state) ==
    LET up == ToUpper(state) IN
    IF up = str_SUCCESS THEN "pass"
    ELSE IF up = str_SKIPPED \/ up = str_NEUTRAL THEN "skipping"
    ELSE IF up = str_FAILURE \/ up = str_ERROR \/ up = str_TIMED_OUT
            \/ up = str_ACTION_REQUIRED THEN "fail"
    ELSE IF up = str_CANCELLED THEN "cancel"
    ELSE "pending"

checkFromRun(run) ==
    LET state == IF EqualFold(run.Status, str_completed) THEN run.Conclusion ELSE run.Status
    IN [Name |-> run.Name,
        State |-> ToUpper(state),
        Link |-> run.HTMLURL,
        StartedAt |-> run.StartedAt,
        Bucket |-> runBucket(state)]

\* statusBucket without the "error" label
statusBucket_errorPending(state) ==
    LET low == ToLower(state) IN
    IF low = str_success THEN "pass"
    ELSE IF low = str_failure THEN "fail"
    ELSE "pending"

\* the switch of checkFromStatus on strings.ToLower(s.State)
statusBucket(state) ==
    LET low == ToLower(state) IN
    IF low = str_success THEN "pass"
    ELSE IF low = str_failure \/ low = str_error THEN "fail"
    ELSE "pending"

checkFromStatus(s) ==
    [Name |-> s.Context,
     State |-> ToUpper(s.State),
     Link |-> s.TargetURL,
     StartedAt |-> s.CreatedAt,
     Bucket |-> statusBucket(s.State)]

\* incrementCounts without the "cancel" case
incrementCounts_noCancel(counts, bucket) ==
    IF bucket = "pass" THEN [counts EXCEPT !.Passed = @ + 1]
    ELSE IF bucket = "fail" THEN [counts EXCEPT !.Failed = @ + 1]
    ELSE IF bucket = "pending" THEN [counts EXCEPT !.Pending = @ + 1]
    ELSE IF bucket = "skipping" THEN [counts EXCEPT !.Skipping = @ + 1]
    ELSE counts

incrementCounts(counts, bucket) ==
    IF bucket = "pass" THEN [counts EXCEPT !.Passed = @ + 1]
    ELSE IF bucket = "fail" THEN [counts EXCEPT !.Failed = @ + 1]
    ELSE IF bucket = "pending" THEN [counts EXCEPT !.Pending = @ + 1]
    ELSE IF bucket = "skipping" THEN [counts EXCEPT !.Skipping = @ + 1]
    ELSE IF bucket = "cancel" THEN [counts EXCEPT !.Canceled = @ + 1]
    ELSE counts

\* After that also holds of equal instants (a swap on ties)
After_orEqual(t, u) == t >= u

\* After with the comparison turned around (an ascending sort)
After_reversed(t, u) == t < u

\* time.Time.After
After(t, u) == t > u

\* runs[i], runs[j] = runs[j], runs[i]
swapRuns(rs, i, j) == [rs EXCEPT ![i] = rs[j], ![j] = rs[i]]

RECURSIVE sortInner(_, _, _)
\* inner loop of sortCheckRunsByTime: for j := i + 1; j < len(runs); j++
sortInner(rs, i, j) ==
    IF j > Len(rs) THEN rs
    ELSE sortInner(IF After(rs[j].StartedAt, rs[i].StartedAt) THEN swapRuns(rs, i, j) ELSE rs,
                   i, j + 1)

RECURSIVE sortOuter(_, _)
\* outer loop of sortCheckRunsByTime: for i := 0; i < len(runs); i++
sortOuter(rs, i) ==
    IF i > Len(rs) THEN rs
    ELSE sortOuter(sortInner(rs, i, i + 1), i + 1)

\* sortCheckRunsByTime that leaves the slice in upstream order
sortCheckRunsByTime_unsorted(rs) == rs

sortCheckRunsByTime(rs) == sortOuter(rs, 1)

RECURSIVE dedupRuns(_, _, _, _)
\* for _, run := range runs { ... } ; acc = [checks, counts]
dedupRuns(rs, i, seenRuns, acc) ==
    IF i > Len(rs) THEN acc
    ELSE IF rs[i].Name \in seenRuns THEN dedupRuns(rs, i + 1, seenRuns, acc)
    ELSE LET c == checkFromRun(rs[i]) IN
         dedupRuns(rs, i + 1, seenRuns \cup {rs[i].Name},
                   [checks |-> Append(acc.checks, c),
                    counts |-> incrementCounts(acc.counts, c.Bucket)])

RECURSIVE dedupStatuses_sharedSeen(_, _, _, _)
\* dedupStatuses that also treats the names of the checks built so far (those of
\* the check-runs) as seen
dedupStatuses_sharedSeen(ss, i, seenContexts, acc) ==
    IF i > Len(ss) THEN acc
    ELSE IF ss[i].Context \in seenContexts \cup {acc.checks[k].Name : k \in DOMAIN acc.checks}
         THEN dedupStatuses_sharedSeen(ss, i + 1, seenContexts, acc)
    ELSE LET c == checkFromStatus(ss[i]) IN
         dedupStatuses_sharedSeen(ss, i + 1, seenContexts \cup {ss[i].Context},
                                  [checks |-> Append(acc.checks, c),
                                   counts |-> incrementCounts(acc.counts, c.Bucket)])

RECURSIVE dedupStatuses_lastWins(_, _, _, _)
\* dedupStatuses in which a later status of a context replaces the check
\* built from an earlier one
dedupStatuses_lastWins(ss, i, seenContexts, acc) ==
    IF i > Len(ss) THEN acc
    ELSE IF \E k \in i + 1..Len(ss) : ss[k].Context = ss[i].Context
         THEN dedupStatuses_lastWins(ss, i + 1, seenContexts, acc)
    ELSE LET c == checkFromStatus(ss[i]) IN
         dedupStatuses_lastWins(ss, i + 1, seenContexts \cup {ss[i].Context},
                                [checks |-> Append(acc.checks, c),
                                 counts |-> incrementCounts(acc.counts, c.Bucket)])

RECURSIVE dedupStatuses(_, _, _, _)
\* for _, s := range combined.Statuses { ... }
dedupStatuses(ss, i, seenContexts, acc) ==
    IF i > Len(ss) THEN acc
    ELSE IF ss[i].Context \in seenContexts THEN dedupStatuses(ss, i + 1, seenContexts, acc)
    ELSE LET c == checkFromStatus(ss[i]) IN
         dedupStatuses(ss, i + 1, seenContexts \cup {ss[i].Context},
                       [checks |-> Append(acc.checks, c),
                        counts |-> incrementCounts(acc.counts, c.Bucket)])

\* the part of fetchAndAggregateChecks after both retrievals succeeded:
\* result is [checks, counts, runs] where runs is the slice as the in-place
\* sort left it
aggregate(rs, ss) ==
    LET sorted == sortCheckRunsByTime(rs)
        afterRuns == dedupRuns(sorted, 1, {}, [checks |-> << >>, counts |-> zeroCounts])
        afterStatuses == dedupStatuses(ss, 1, {}, afterRuns)
    IN [checks |-> afterStatuses.checks, counts |-> afterStatuses.counts, runs |-> sorted]

----------------------------------------------------------------------------
(* String helpers used by runPrChecks and findPR *)

\* s[from..] as a sequence
Drop(s, n) == SubSeq(s, n + 1, Len(s))

\* strings.HasPrefix
HasPrefix(s, p) == Len(s) >= Len(p) /\ SubSeq(s, 1, Len(p)) = p
\* strings.TrimPrefix
TrimPrefix(s, p) == IF HasPrefix(s, p) THEN Drop(s, Len(p)) ELSE s

Digits == <<"0","1","2","3","4","5","6","7","8","9">>
IsDigit(ch) == IndexIn(Digits, ch) # 0
DigitVal(ch) == IndexIn(Digits, ch) - 1

\* a run of decimal digits without its leading zeros (one zero is kept)
stripZeros(ds) ==
    LET nz == {i \in DOMAIN ds : ds[i] # "0"} IN
    IF nz = {} THEN <<"0">>
    ELSE SubSeq(ds, CHOOSE i \in nz : \A k \in nz : i <= k, Len(ds))

\* a <= b for two runs of digits without leading zeros, as numbers
digitsLessEq(a, b) ==
    \/ Len(a) < Len(b)
    \/ /\ Len(a) = Len(b)
       /\ LET diff == {i \in DOMAIN a : a[i] # b[i]} IN
          \/ diff = {}
          \/ LET i == CHOOSE k \in diff : \A m \in diff : k <= m
             IN DigitVal(a[i]) < DigitVal(b[i])

\* the greatest int and the magnitude of the least int, in decimal; int is
\* 64 bits wide on amd64 and arm64, the architectures released
maxIntText == <<"9","2","2","3","3","7","2","0","3","6","8","5","4","7","7","5","8","0","7">>
minIntMagnitude == <<"9","2","2","3","3","7","2","0","3","6","8","5","4","7","7","5","8","0","8">>

\* strconv.Atoi: optional sign, then one or more decimal digits; the result
\* n is the number as %d prints it. A syntax error gives 0, a value outside
\* the int range gives the nearest int, both with ok = FALSE
Atoi(s) ==
    LET signed == Len(s) > 0 /\ s[1] \in {"+", "-"}
        body == IF signed THEN Drop(s, 1) ELSE s
        neg == signed /\ s[1] = "-"
        mag == stripZeros(body)
        limit == IF neg THEN minIntMagnitude ELSE maxIntText
    IN IF Len(body) = 0 \/ \E i \in DOMAIN body : ~IsDigit(body[i])
       THEN [ok |-> FALSE, n |-> <<"0">>]
       ELSE IF ~digitsLessEq(mag, limit)
       THEN [ok |-> FALSE, n |-> IF neg THEN <<"-">> \o limit ELSE limit]
       ELSE [ok |-> TRUE, n |-> IF neg /\ mag # <<"0">> THEN <<"-">> \o mag ELSE mag]

str_hash == <<"#">>
str_https == <<"h","t","t","p","s",":","/","/">>
str_pull == <<"/","p","u","l","l","/">>

\* positions where `/pull/` followed by at least one digit starts
pullMatches(s) ==
    {i \in DOMAIN s : /\ i + Len(str_pull) <= Len(s)
                      /\ SubSeq(s, i, i + Len(str_pull) - 1) = str_pull
                      /\ IsDigit(s[i + Len(str_pull)])}

\* prURLRe.FindStringSubmatch(selector) for `/pull/(\d+)`: the leftmost match,
\* digits taken greedily; result is m[1], or the empty string when no match
prURLDigits(s) ==
    IF pullMatches(s) = {} THEN << >>
    ELSE LET i == CHOOSE k \in pullMatches(s) : \A m \in pullMatches(s) : k <= m
             first == i + Len(str_pull)
             last == CHOOSE e \in first..Len(s) :
                        /\ \A k \in first..e : IsDigit(s[k])
                        /\ (e = Len(s) \/ ~IsDigit(s[e + 1]))
         IN SubSeq(s, first, last)

\* strings.SplitN(repoStr, "/", 2)
SplitN2(s) ==
    LET slashes == {i \in DOMAIN s : s[i] = "/"} IN
    IF slashes = {} THEN <<s>>
    ELSE LET i == CHOOSE k \in slashes : \A m \in slashes : k <= m
         IN <<SubSeq(s, 1, i - 1), Drop(s, i)>>

\* firstNonEmpty
RECURSIVE firstNonEmpty(_)
firstNonEmpty(values) ==
    IF Len(values) = 0 THEN ""
    ELSE IF values[1] # "" THEN values[1]
    ELSE firstNonEmpty(Tail(values))

----------------------------------------------------------------------------
(* Display order: sortChecks *)

\* the byte of a character, for the characters this model's names, links and
\* selectors are written with
byteOf(ch) ==
    IF IsDigit(ch) THEN 47 + IndexIn(Digits, ch)
    ELSE IF IndexIn(Uppers, ch) # 0 THEN 64 + IndexIn(Uppers, ch)
    ELSE IF IndexIn(Lowers, ch) # 0 THEN 96 + IndexIn(Lowers, ch)
    ELSE IF ch = "#" THEN 35
    ELSE IF ch = "+" THEN 43
    ELSE IF ch = "-" THEN 45
    ELSE IF ch = "." THEN 46
    ELSE IF ch = "/" THEN 47
    ELSE IF ch = ":" THEN 58
    ELSE 95

\* the < of Go strings: bytewise lexicographic order
strLess(a, b) ==
    LET n == IF Len(a) < Len(b) THEN Len(a) ELSE Len(b)
        diff == {i \in 1..n : a[i] # b[i]}
    IN IF diff = {} THEN Len(a) < Len(b)
       ELSE LET i == CHOOSE k \in diff : \A m \in diff : k <= m
            IN byteOf(a[i]) < byteOf(b[i])

\* sortLess with the test on the other bucket left out of the pending case
sortLess_pendingAhead(x, y) ==
    IF x.Bucket = y.Bucket
    THEN IF x.Name = y.Name THEN strLess(x.Link, y.Link) ELSE strLess(x.Name, y.Name)
    ELSE x.Bucket = "fail" \/ x.Bucket = "pending"

\* the less function sortChecks hands to sort.Slice
sortLess(x, y) ==
    IF x.Bucket = y.Bucket
    THEN IF x.Name = y.Name THEN strLess(x.Link, y.Link) ELSE strLess(x.Name, y.Name)
    ELSE x.Bucket = "fail" \/ (x.Bucket = "pending" /\ y.Bucket # "fail")

RECURSIVE insertBack(_, _)
\* sort.Slice on a slice of at most 12 elements is an insertion sort; its
\* inner loop: for j := i; j > a && less(j, j-1); j-- { swap(j, j-1) }
insertBack(cs, j) ==
    IF j > 1 /\ sortLess(cs[j], cs[j - 1])
    THEN insertBack([cs EXCEPT ![j] = cs[j - 1], ![j - 1] = cs[j]], j - 1)
    ELSE cs

RECURSIVE insertionSort(_, _)
\* its outer loop: for i := a + 1; i < b; i++
insertionSort(cs, i) ==
    IF i > Len(cs) THEN cs
    ELSE insertionSort(insertBack(cs, i), i + 1)

\* sortChecks, for the short lists of this model
sortChecks(cs) == insertionSort(cs, 2)

----------------------------------------------------------------------------
(* Inputs of the client run: command line, environment, upstream answers *)

str_Completed == <<"C","o","m","p","l","e","t","e","d">>
str_COMPLETED == <<"C","O","M","P","L","E","T","E","D">>
str_complete == <<"c","o","m","p","l","e","t","e">>
str_queued == <<"q","u","e","u","e","d">>
str_waiting == <<"w","a","i","t","i","n","g">>
str_Success == <<"S","u","c","c","e","s","s">>
str_skipped == <<"s","k","i","p","p","e","d">>
str_Skipped == <<"S","k","i","p","p","e","d">>
str_neutral == <<"n","e","u","t","r","a","l">>
str_Error == <<"E","r","r","o","r">>
str_timed_out == <<"t","i","m","e","d","_","o","u","t">>
str_action_required == <<"a","c","t","i","o","n","_","r","e","q","u","i","r","e","d">>
str_Action_Required == <<"A","c","t","i","o","n","_","R","e","q","u","i","r","e","d">>
str_cancelled == <<"c","a","n","c","e","l","l","e","d">>
str_canceled == <<"c","a","n","c","e","l","e","d">>
str_stale == <<"s","t","a","l","e">>
str_bogus == <<"b","o","g","u","s">>
str_startup_failure == <<"s","t","a","r","t","u","p","_","f","a","i","l","u","r","e">>
str_PENDING == <<"P","E","N","D","I","N","G">>
str_in_progress == <<"i","n","_","p","r","o","g","r","e","s","s">>
str_pending == <<"p","e","n","d","i","n","g">>

mkRun(name, status, conclusion, startedAt) ==
    [Name |-> name, Status |-> status, Conclusion |-> conclusion,
     StartedAt |-> startedAt, HTMLURL |-> "run-url"]

mkStatus(context, state) ==
    [Context |-> context, State |-> state, TargetURL |-> "status-url", CreatedAt |-> 0]

CheckNames == {"build", "test"}
Contexts == {"build", "lint"}

\* check-runs the upstream serves during a run: a failed build, its re-run
\* that is still in progress, and a cancelled deployment
LoopRuns == {mkRun("build", str_completed, str_failure, 1),
             mkRun("build", str_in_progress, str_empty, 2),
             mkRun("deploy", str_completed, str_cancelled, 1)}
\* one page of the check-runs listing
LoopPages == {<< >>} \cup {<<r>> : r \in LoopRuns}
\* the statuses list of one combined-status answer
LoopStatuses == {<< >>} \cup {<<mkStatus("lint", st)>> : st \in {str_success, str_pending}}

SHAs == {"sha1", "sha2"}

\* values of --repo and of the detected git remote
RepoStrs == {str_empty, <<"o","/","r">>, <<"o","/">>, <<"/","r">>, <<"o","r">>}

\* positional selectors
Selectors == {str_empty, <<"4","2">>, <<"#","4","2">>, <<"m","a","i","n">>, <<"h","t","t","p","s",":","/","/","h","/","p","u","l","l","/","7","/","f","i","l","e","s">>}

\* outcomes of one HTTP exchange
Responses == {"clientErr", "notFound", "serverErr", "decodeErr", "ok"}

----------------------------------------------------------------------------
(* The proxy: route whitelist, owner/repo extraction, organization list,   *)
(* header forwarding, classic token lookup and validator cache entries      *)

str_slash == <<"/">>
str_repos == <<"r","e","p","o","s">>
str_commits == <<"c","o","m","m","i","t","s">>
str_check_runs == <<"c","h","e","c","k","-","r","u","n","s">>
str_check_suites == <<"c","h","e","c","k","-","s","u","i","t","e","s">>
str_annotations == <<"a","n","n","o","t","a","t","i","o","n","s">>
str_status == <<"s","t","a","t","u","s">>
str_statuses == <<"s","t","a","t","u","s","e","s">>
str_Bearer == <<"B","e","a","r","e","r"," ">>

\* strings.Split(s, "/")
RECURSIVE splitSlash(_)
splitSlash(s) ==
    LET slashes == {i \in DOMAIN s : s[i] = "/"} IN
    IF slashes = {} THEN <<s>>
    ELSE LET i == CHOOSE k \in slashes : \A m \in slashes : k <= m
         IN <<SubSeq(s, 1, i - 1)>> \o splitSlash(Drop(s, i))

\* the path element [^/]+ of a route
seg_any == <<"[^/]+">>

\* allowedRoutes: each regular expression "^/" e1 "/" e2 ... "$" as its elements
allowedRoutes ==
    << <<str_repos, seg_any, seg_any, str_commits, seg_any, str_check_runs>>,
       <<str_repos, seg_any, seg_any, str_commits, seg_any, str_check_suites>>,
       <<str_repos, seg_any, seg_any, str_check_runs, seg_any>>,
       <<str_repos, seg_any, seg_any, str_check_runs, seg_any, str_annotations>>,
       <<str_repos, seg_any, seg_any, str_check_suites, seg_any>>,
       <<str_repos, seg_any, seg_any, str_check_suites, seg_any, str_check_runs>>,
       <<str_repos, seg_any, seg_any, str_commits, seg_any, str_status>>,
       <<str_repos, seg_any, seg_any, str_commits, seg_any, str_statuses>>,
       <<str_repos, seg_any, seg_any, str_statuses, seg_any>> >>

\* routeMatches with the closing "$" of the expression left out
routeMatches_unanchored(route, path) ==
    /\ HasPrefix(path, str_slash)
    /\ LET segs == splitSlash(Drop(path, 1)) IN
       /\ Len(segs) >= Len(route)
       /\ \A i \in DOMAIN route :
            IF route[i] = seg_any THEN segs[i] # << >> ELSE segs[i] = route[i]

\* re.MatchString(path) for one expression of allowedRoutes
routeMatches(route, path) ==
    /\ HasPrefix(path, str_slash)
    /\ LET segs == splitSlash(Drop(path, 1)) IN
       /\ Len(segs) = Len(route)
       /\ \A i \in DOMAIN route :
            IF route[i] = seg_any THEN segs[i] # << >> ELSE segs[i] = route[i]

\* pathMatches
pathMatches(path) == \E i \in DOMAIN allowedRoutes : routeMatches(allowedRoutes[i], path)

\* extractOwnerRepo: the first three parts of SplitN(.., "/", 4) are those of Split
extractOwnerRepo(path) ==
    LET parts == splitSlash(TrimPrefix(path, str_slash)) IN
    IF Len(parts) < 3 \/ parts[1] # str_repos
    THEN [ok |-> FALSE, owner |-> << >>, repo |-> << >>]
    ELSE [ok |-> TRUE, owner |-> parts[2], repo |-> parts[3]]

\* orgAllowed comparing with == instead of strings.EqualFold
orgAllowed_caseSensitive(allowed, owner) == \E i \in DOMAIN allowed : allowed[i] = owner

\* orgAllowed
orgAllowed(allowed, owner) == \E i \in DOMAIN allowed : EqualFold(allowed[i], owner)

\* the organization check of ProxyHandler
orgRejected(allowed, owner) == Len(allowed) > 0 /\ ~orgAllowed(allowed, owner)

\* the method check of ProxyHandler
methodRejected(method) == method # "GET"

\* fgToken := strings.TrimPrefix(r.Header.Get("Authorization"), "Bearer ")
fgTokenOf(authorization) == TrimPrefix(authorization, str_Bearer)

\* the decision of ProxyHandler on Validate's answer, with a denial let through
tokenRejected_never(allowed) == FALSE

\* if !allowed
tokenRejected(allowed) == ~allowed

\* headersToForward
headersToForward ==
    <<"Content-Type", "ETag", "Link", "X-RateLimit-Limit", "X-RateLimit-Remaining",
      "X-RateLimit-Reset", "X-RateLimit-Used", "X-RateLimit-Resource">>

\* Header.Get: headers are a set of <<name, value>> pairs, one per name
headerGet(headers, name) ==
    IF \E p \in headers : p[1] = name
    THEN (CHOOSE p \in headers : p[1] = name)[2]
    ELSE ""

\* the header loop of ProxyHandler copying every upstream header
forwardHeaders_all(headers) == {p \in headers : p[2] # ""}

\* the header loop of ProxyHandler
forwardHeaders(headers) ==
    {<<headersToForward[i], headerGet(headers, headersToForward[i])>> :
        i \in {k \in DOMAIN headersToForward : headerGet(headers, headersToForward[k]) # ""}}

\* the headers http.Error sets
errorHeaders ==
    {<<"Content-Type", "text/plain; charset=utf-8">>, <<"X-Content-Type-Options", "nosniff">>}

\* http.Error(w, text, status)
httpError(text, status) == [status |-> status, headers |-> errorHeaders, body |-> text]

\* setGitHubHeaders
setGitHubHeaders(token) ==
    [Authorization |-> str_Bearer \o token,
     Accept |-> "application/vnd.github+json",
     XGitHubApiVersion |-> "2022-11-28"]

isSpace(ch) == ch \in {" ", "\t", "\n", "\r"}

\* strings.TrimSpace
RECURSIVE TrimSpace(_)
TrimSpace(s) ==
    IF Len(s) = 0 THEN s
    ELSE IF isSpace(s[1]) THEN TrimSpace(Tail(s))
    ELSE IF isSpace(s[Len(s)]) THEN TrimSpace(SubSeq(s, 1, Len(s) - 1))
    ELSE s

\* Config.GetClassicToken: firstNonEmpty over the two environment variables
\* and the stored value
GetClassicToken(envClassic, envGhToken, stored) ==
    IF TrimSpace(envClassic) # << >> THEN TrimSpace(envClassic)
    ELSE IF TrimSpace(envGhToken) # << >> THEN TrimSpace(envGhToken)
    ELSE stored

\* cacheKey: the text that is hashed; SHA-256 is taken to be injective
cacheKey(token, owner, repo) == token \o str_slash \o owner \o str_slash \o repo

\* the test of Validate with the expiry of an entry ignored
unexpired_always(t, expires) == TRUE

\* time.Now().Before(entry.expires)
unexpired(t, expires) == t < expires

\* checkGitHub: resp.StatusCode == http.StatusOK
checkGitHub(status) == status = 200

\* v.cache.Delete(key)
cacheDelete(c, key) == [k \in DOMAIN c \ {key} |-> c[k]]

\* v.cache.Store(key, entry)
cacheStore(c, key, entry) ==
    [k \in DOMAIN c \cup {key} |-> IF k = key THEN entry ELSE c[k]]

----------------------------------------------------------------------------
(* State of one `pr checks` run *)

VARIABLES
    pc,          \* position of the run
    watch,       \* *watch
    failFast,    \* *failFast
    sha,         \* pr.Head.SHA ("" before the pull request is resolved)
    nextPage,    \* fetchCheckRuns: page nextURL points to (0: nextURL == "")
    all,         \* fetchCheckRuns: runs appended so far
    rawRuns,     \* runs as fetchCheckRuns returned them, of which checks/counts are the aggregation
    rawStatuses, \* combined.Statuses of which checks/counts are the aggregation
    checks,      \* runPrChecks: checks
    counts,      \* runPrChecks: counts
    code,        \* exit code returned by runPrChecks (-1: not returned)
    err,         \* error returned by runPrChecks (<< >>: nil)
    osExit,      \* argument of os.Exit in main (-1: not exited)
    cycles,      \* fetch cycles started
    sleeps,      \* calls of time.Sleep
    nPRReq,      \* pull request lookups issued
    nRunsReq,    \* check-runs requests issued
    nStatusReq,  \* combined-status requests issued
    lastReq,     \* the most recent network request
    lastResp,    \* outcome of the most recent HTTP exchange ("none" before the first)
    pageLog,     \* fetchCheckRuns: pages requested so far, in request order
    input,       \* inputs fixed at the start of a specification (<< >> when drawn per step)
    cfg,         \* proxy: the Config handed to ProxyHandler (AllowedOrgs, ClassicToken)
    env,         \* proxy: the environment variables that can hold a classic token
    ttl,         \* proxy: Validator.ttl
    now,         \* proxy: time.Now()
    cache,       \* proxy: Validator.cache, key -> cacheEntry
    serving      \* proxy: the requests being served, one ProxyHandler call each

vars == <<pc, watch, failFast, sha, nextPage, all, rawRuns, rawStatuses, checks, counts,
          code, err, osExit, cycles, sleeps, nPRReq, nRunsReq, nStatusReq, lastReq,
          lastResp, pageLog, input, cfg, env, ttl, now, cache, serving>>

proxyVars == <<cfg, env, ttl, now, cache, serving>>

clientVars == <<pc, watch, failFast, sha, nextPage, all, rawRuns, rawStatuses, checks,
                counts, code, err, osExit, cycles, sleeps, nPRReq, nRunsReq, nStatusReq,
                lastReq, lastResp, pageLog, input>>

\* no proxy is running
proxyIdle ==
    /\ cfg = [AllowedOrgs |-> << >>, ClassicToken |-> << >>]
    /\ env = [GH_CHECKPROXY_CLASSIC_TOKEN |-> << >>, GH_TOKEN |-> << >>]
    /\ ttl = 0
    /\ now = 0
    /\ cache = [k \in {} |-> 0]
    /\ serving = [r \in {} |-> 0]

mkReq(kind, n, branch, commit, page) ==
    [kind |-> kind, n |-> n, branch |-> branch, sha |-> commit, page |-> page]

\* n is the pull request number as the request URL spells it (<< >>: none)
noReq == mkReq("none", << >>, << >>, "", 0)

InitCommon ==
    /\ watch = FALSE
    /\ failFast = FALSE
    /\ sha = ""
    /\ nextPage = 0
    /\ all = << >>
    /\ rawRuns = << >>
    /\ rawStatuses = << >>
    /\ checks = << >>
    /\ counts = zeroCounts
    /\ code = -1
    /\ err = << >>
    /\ osExit = -1
    /\ cycles = 0
    /\ sleeps = 0
    /\ nPRReq = 0
    /\ nRunsReq = 0
    /\ nStatusReq = 0
    /\ lastReq = noReq
    /\ lastResp = "none"
    /\ pageLog = << >>
    /\ input = << >>
    /\ proxyIdle

Init ==
    /\ pc = "start"
    /\ InitCommon

\* return code, err from runPrChecks
returnWith(c, e) ==
    /\ code' = c
    /\ err' = e
    /\ pc' = "returned"

----------------------------------------------------------------------------
(* runPrChecks up to the pull request lookup *)

\* failFastWithoutWatch with the check left out
failFastWithoutWatch_unchecked(ff, w) == FALSE

\* if *failFast && !*watch
failFastWithoutWatch(ff, w) == ff /\ ~w

\* runPrChecks: flag parsing and the checks that precede findPR
ParseArgs ==
    /\ pc = "start"
    /\ \E parseOk \in BOOLEAN, w \in BOOLEAN, ff \in BOOLEAN,
          tokenFlag \in {"", "fg-token"}, envGhToken \in {"", "fg-token"},
          envGithubToken \in {"", "fg-token"},
          proxyFlag \in {"", "http://proxy/"}, envProxy \in {"", "http://proxy/"},
          repoFlag \in RepoStrs, detected \in RepoStrs :
        LET fgToken == firstNonEmpty(<<tokenFlag, envGhToken, envGithubToken>>)
            pURL == firstNonEmpty(<<proxyFlag, envProxy>>)
            repoStr == IF repoFlag = str_empty THEN detected ELSE repoFlag
            repoParts == SplitN2(repoStr)
        IN /\ watch' = w
           /\ failFast' = ff
           /\ IF ~parseOk THEN returnWith(1, <<"flag parse error">>)
              ELSE IF failFastWithoutWatch(ff, w) THEN returnWith(1, <<"--fail-fast requires --watch">>)
              ELSE IF fgToken = "" THEN returnWith(1, <<"no token">>)
              ELSE IF pURL = "" THEN returnWith(1, <<"no proxy URL">>)
              ELSE IF repoStr = str_empty THEN returnWith(1, <<"could not detect repository">>)
              ELSE IF Len(repoParts) # 2 \/ repoParts[1] = str_empty \/ repoParts[2] = str_empty
                   THEN returnWith(1, <<"invalid repo format">>)
              ELSE /\ pc' = "findPR"
                   /\ UNCHANGED <<code, err, proxyVars>>
    /\ UNCHANGED <<sha, nextPage, all, rawRuns, rawStatuses, checks, counts, osExit,
                   cycles, sleeps, nPRReq, nRunsReq, nStatusReq, lastReq,
                   lastResp, pageLog, input, proxyVars>>

str_dev == <<"d","e","v">>

\* findPR: which lookup the selector leads to
\* ("none": currentBranch failed, no request is made)
findPRRoute(selector, branchOK, branch) ==
    IF selector = str_empty
    THEN IF ~branchOK THEN mkReq("none", << >>, << >>, "", 0)
         ELSE mkReq("pullsByBranch", << >>, branch, "", 0)
    ELSE LET sel == TrimPrefix(selector, str_hash) IN
         IF Atoi(sel).ok THEN mkReq("pull", Atoi(sel).n, << >>, "", 0)
         ELSE IF HasPrefix(sel, str_https) /\ prURLDigits(sel) # << >>
              THEN mkReq("pull", Atoi(prURLDigits(sel)).n, << >>, "", 0)
         ELSE mkReq("pullsByBranch", << >>, sel, "", 0)

\* fetchSinglePR without the tests of the status code
fetchSinglePR_ignoresStatus(resp, prSha) ==
    IF resp = "clientErr" THEN [err |-> "client error", sha |-> ""]
    ELSE IF resp = "decodeErr" THEN [err |-> "decode error", sha |-> ""]
    ELSE [err |-> "", sha |-> prSha]

\* fetchSinglePR: [err, sha]
fetchSinglePR(resp, prSha) ==
    IF resp = "clientErr" THEN [err |-> "client error", sha |-> ""]
    ELSE IF resp = "notFound" THEN [err |-> "pull request not found", sha |-> ""]
    ELSE IF resp # "ok" /\ resp # "decodeErr" THEN [err |-> "GitHub API returned non-200", sha |-> ""]
    ELSE IF resp = "decodeErr" THEN [err |-> "decode error", sha |-> ""]
    ELSE [err |-> "", sha |-> prSha]

\* findPRByBranch returning the last pull request of the list
findPRByBranch_lastElement(resp, prs) ==
    IF resp = "clientErr" THEN [err |-> "client error", sha |-> ""]
    ELSE IF resp # "ok" /\ resp # "decodeErr" THEN [err |-> "GitHub API returned non-200", sha |-> ""]
    ELSE IF resp = "decodeErr" THEN [err |-> "decode error", sha |-> ""]
    ELSE IF Len(prs) = 0 THEN [err |-> "no open pull request found for branch", sha |-> ""]
    ELSE [err |-> "", sha |-> prs[Len(prs)]]

\* fetchPRList followed by the rest of findPRByBranch: [err, sha]
findPRByBranch(resp, prs) ==
    IF resp = "clientErr" THEN [err |-> "client error", sha |-> ""]
    ELSE IF resp # "ok" /\ resp # "decodeErr" THEN [err |-> "GitHub API returned non-200", sha |-> ""]
    ELSE IF resp = "decodeErr" THEN [err |-> "decode error", sha |-> ""]
    ELSE IF Len(prs) = 0 THEN [err |-> "no open pull request found for branch", sha |-> ""]
    ELSE [err |-> "", sha |-> prs[1]]

\* upstream answers to the branch lookup: head SHAs of the listed pull requests
PRLists == {<< >>} \cup {<<a>> : a \in SHAs} \cup {<<a, b>> : a \in SHAs, b \in SHAs}

\* findPR and what runPrChecks does with its result
findPR(selector, branchOK, branch, resp, prSha, prs) ==
    LET route == findPRRoute(selector, branchOK, branch)
        res == IF route.kind = "pull" THEN fetchSinglePR(resp, prSha)
               ELSE findPRByBranch(resp, prs)
    IN IF route.kind = "none"
       THEN /\ returnWith(1, <<"finding PR", "could not detect current branch">>)
            /\ UNCHANGED <<sha, nextPage, nPRReq, lastReq, lastResp, proxyVars>>
       ELSE /\ nPRReq' = nPRReq + 1
            /\ lastReq' = route
            /\ lastResp' = resp
            /\ IF res.err # ""
               THEN /\ returnWith(1, <<"finding PR", res.err>>)
                    /\ UNCHANGED <<sha, nextPage, proxyVars>>
               ELSE /\ sha' = res.sha
                    /\ nextPage' = 1
                    /\ pc' = "fetchRuns"
                    /\ UNCHANGED <<code, err, proxyVars>>

\* runPrChecks: pr, err := findPR(...)
FindPR ==
    /\ pc = "findPR"
    /\ \E selector \in Selectors, branchOK \in BOOLEAN, resp \in Responses,
          prSha \in SHAs, prs \in PRLists :
        findPR(selector, branchOK, str_dev, resp, prSha, prs)
    /\ UNCHANGED <<watch, failFast, all, rawRuns, rawStatuses, checks, counts, osExit,
                   cycles, sleeps, nRunsReq, nStatusReq, pageLog, input, proxyVars>>

----------------------------------------------------------------------------
(* The fetch cycle: fetchAndAggregateChecks *)

mkLink(rel, page) == [rel |-> rel, page |-> page]

\* Link headers a 200 answer for page p may carry: a sequence of
\* (target page, rel) parts; a next relation only below MaxPages
LinkHeaders(p) ==
    {<< >>, <<mkLink("prev", p - 1)>>, <<mkLink("first", 1), mkLink("last", p)>>}
    \cup (IF p < MaxPages
          THEN {<<mkLink("next", p + 1)>>,
                <<mkLink("prev", p - 1), mkLink("next", p + 1), mkLink("last", MaxPages)>>}
          ELSE {})

\* parseNextLink that looks at the first part of the header only
parseNextLink_firstPartOnly(linkHeader) ==
    IF Len(linkHeader) = 0 THEN 0
    ELSE IF linkHeader[1].rel = "next" /\ linkHeader[1].page # 0 THEN linkHeader[1].page
    ELSE 0

RECURSIVE parseNextLink(_)
\* parseNextLink: target of the first part whose relation is rel="next" and
\* whose target between the angle brackets is not empty (page 0 stands for
\* the empty string, as argument and as result)
parseNextLink(linkHeader) ==
    IF Len(linkHeader) = 0 THEN 0
    ELSE IF linkHeader[1].rel = "next" /\ linkHeader[1].page # 0 THEN linkHeader[1].page
    ELSE parseNextLink(Tail(linkHeader))

\* the cause an unsuccessful exchange is reported with
proxyErr(resp) ==
    IF resp = "clientErr" THEN "client error"
    ELSE IF resp = "decodeErr" THEN "decode error"
    ELSE "proxy returned non-200"

\* fetchFailed that waits and fetches again instead of returning the error
fetchFailed_retried(wrap, resp) ==
    /\ checks' = << >>
    /\ counts' = zeroCounts
    /\ all' = << >>
    /\ rawRuns' = << >>
    /\ rawStatuses' = << >>
    /\ pc' = "sleep"
    /\ UNCHANGED <<code, err, proxyVars>>

\* fetchFailed that leaves checks and counts as the previous cycle set them
fetchFailed_keepsResults(wrap, resp) ==
    /\ all' = << >>
    /\ UNCHANGED <<checks, counts, rawRuns, rawStatuses, proxyVars>>
    /\ returnWith(1, <<wrap, proxyErr(resp)>>)

\* what runPrChecks does when fetchAndAggregateChecks returns an error:
\* checks, counts, err = nil, checkCounts{}, err ; return 1, err
fetchFailed(wrap, resp) ==
    /\ checks' = << >>
    /\ counts' = zeroCounts
    /\ all' = << >>
    /\ rawRuns' = << >>
    /\ rawStatuses' = << >>
    /\ returnWith(1, <<wrap, proxyErr(resp)>>)

\* checkRunsReq naming the branch head instead of the resolved commit
checkRunsReq_headRef(commit, page) == mkReq("check-runs", << >>, << >>, "HEAD", page)

\* the check-runs request of fetchAndAggregateChecks for a commit, and its
\* continuation pages
checkRunsReq(commit, page) == mkReq("check-runs", << >>, << >>, commit, page)

\* the combined-status request of fetchAndAggregateChecks for a commit
statusReq(commit) == mkReq("status", << >>, << >>, commit, 0)

\* fetchCheckRuns: one iteration of `for nextURL != ""`, the exchange answered
\* with resp and, when resp is "ok", with the runs of page and the Link header
fetchCheckRunsPage(resp, page, linkHeader) ==
    /\ nRunsReq' = nRunsReq + 1
    /\ lastReq' = checkRunsReq(sha, nextPage)
    /\ lastResp' = resp
    /\ cycles' = IF nextPage = 1 THEN cycles + 1 ELSE cycles
    /\ IF resp # "ok"
       THEN /\ fetchFailed("fetching check runs", resp)
            /\ UNCHANGED nextPage
       ELSE /\ all' = all \o page
            /\ nextPage' = parseNextLink(linkHeader)
            /\ pc' = IF parseNextLink(linkHeader) # 0 THEN "fetchRuns" ELSE "fetchStatus"
            /\ UNCHANGED <<rawRuns, rawStatuses, checks, counts, code, err, proxyVars>>
    /\ UNCHANGED <<watch, failFast, sha, osExit, sleeps, nPRReq, nStatusReq, input, proxyVars>>

\* fetchCheckRuns inside a run: the upstream answers as it pleases
FetchCheckRunsPage ==
    /\ pc = "fetchRuns"
    /\ \E resp \in Responses :
        IF resp # "ok"
        THEN fetchCheckRunsPage(resp, << >>, << >>)
        ELSE \E page \in LoopPages, linkHeader \in LinkHeaders(nextPage) :
             fetchCheckRunsPage(resp, page, linkHeader)
    /\ UNCHANGED pageLog

\* afterFetch entering the loop whatever the watch flag
afterFetch_alwaysLoop(w) == "evaluate"

\* if *watch { for { ... } } else { print }: where a completed first or later
\* fetch leads
afterFetch(w) == IF w THEN "evaluate" ELSE "final"

\* cycleResult that appends the new checks to those of the cycle before and
\* adds the new counts to the old ones
cycleResult_merged(rs, ss) ==
    LET agg == aggregate(rs, ss) IN
    [checks |-> checks \o agg.checks,
     counts |-> [Passed |-> counts.Passed + agg.counts.Passed,
                 Failed |-> counts.Failed + agg.counts.Failed,
                 Pending |-> counts.Pending + agg.counts.Pending,
                 Skipping |-> counts.Skipping + agg.counts.Skipping,
                 Canceled |-> counts.Canceled + agg.counts.Canceled],
     runs |-> agg.runs]

\* checks, counts, err = fetchAndAggregateChecks(...): what a completed cycle
\* assigns to the list and the counts of runPrChecks
cycleResult(rs, ss) == aggregate(rs, ss)

\* fetchCombinedStatus and the aggregation that follows it
FetchCombinedStatus ==
    /\ pc = "fetchStatus"
    /\ nStatusReq' = nStatusReq + 1
    /\ lastReq' = statusReq(sha)
    /\ \E resp \in Responses :
        /\ lastResp' = resp
        /\ IF resp # "ok"
           THEN fetchFailed("fetching commit status", resp)
           ELSE \E statuses \in LoopStatuses :
             LET agg == cycleResult(all, statuses) IN
             /\ checks' = agg.checks
             /\ counts' = agg.counts
             /\ rawRuns' = all
             /\ rawStatuses' = statuses
             /\ all' = << >>
             /\ pc' = afterFetch(watch)
             /\ UNCHANGED <<code, err, proxyVars>>
    /\ UNCHANGED <<watch, failFast, sha, nextPage, osExit, cycles, sleeps, nPRReq, nRunsReq,
                   pageLog, input, proxyVars>>

----------------------------------------------------------------------------
(* The watch loop and the exit code *)

\* loopBreaks that leaves the loop only when nothing is pending and nothing failed
loopBreaks_onlyOnSuccess(cnt, ff) == cnt.Pending = 0 /\ cnt.Failed = 0

\* loopBreaks that keeps polling while no check at all has been reported
loopBreaks_waitsForChecks(cnt, ff) ==
    \/ /\ cnt.Pending = 0
       /\ cnt.Passed + cnt.Failed + cnt.Skipping + cnt.Canceled > 0
    \/ (ff /\ cnt.Failed > 0)

\* loopBreaks leaving the loop after every cycle
loopBreaks_afterEveryCycle(cnt, ff) == TRUE

\* loopBreaks stopping on any failure, whether or not --fail-fast was given
loopBreaks_anyFailure(cnt, ff) == cnt.Pending = 0 \/ cnt.Failed > 0

\* loopBreaks without the fail-fast break
loopBreaks_noFailFast(cnt, ff) == cnt.Pending = 0

\* the two break conditions of the watch loop
loopBreaks(cnt, ff) == cnt.Pending = 0 \/ (ff /\ cnt.Failed > 0)

\* head of the watch loop: print, then break or go on to time.Sleep
Evaluate ==
    /\ pc = "evaluate"
    /\ pc' = IF loopBreaks(counts, failFast) THEN "final" ELSE "sleep"
    /\ UNCHANGED <<watch, failFast, sha, nextPage, all, rawRuns, rawStatuses, checks, counts,
                   code, err, osExit, cycles, sleeps, nPRReq, nRunsReq, nStatusReq, lastReq,
                   lastResp, pageLog, input, proxyVars>>

\* Sleep with a second time.Sleep ahead of the fetch
Sleep_twice ==
    /\ pc = "sleep"
    /\ cycles < MaxCycles
    /\ sleeps' = sleeps + 2
    /\ nextPage' = 1
    /\ all' = << >>
    /\ pc' = "fetchRuns"
    /\ UNCHANGED <<watch, failFast, sha, rawRuns, rawStatuses, checks, counts,
                   code, err, osExit, cycles, nPRReq, nRunsReq, nStatusReq, lastReq,
                   lastResp, pageLog, input, proxyVars>>

\* time.Sleep(*interval), then the next fetchAndAggregateChecks begins
Sleep ==
    /\ pc = "sleep"
    /\ cycles < MaxCycles
    /\ sleeps' = sleeps + 1
    /\ nextPage' = 1
    /\ all' = << >>
    /\ pc' = "fetchRuns"
    /\ UNCHANGED <<watch, failFast, sha, rawRuns, rawStatuses, checks, counts,
                   code, err, osExit, cycles, nPRReq, nRunsReq, nStatusReq, lastReq,
                   lastResp, pageLog, input, proxyVars>>

\* exitCodeFor with the pending test placed before the failure test
exitCodeFor_pendingFirst(cnt) ==
    IF cnt.Pending > 0 THEN pendingExitCode
    ELSE IF cnt.Failed > 0 THEN 1
    ELSE 0

\* the exit code runPrChecks derives from the final counts
exitCodeFor(cnt) ==
    IF cnt.Failed > 0 THEN 1
    ELSE IF cnt.Pending > 0 THEN pendingExitCode
    ELSE 0

\* final print and return of runPrChecks
Return ==
    /\ pc = "final"
    /\ returnWith(exitCodeFor(counts), << >>)
    /\ UNCHANGED <<watch, failFast, sha, nextPage, all, rawRuns, rawStatuses, checks, counts,
                   osExit, cycles, sleeps, nPRReq, nRunsReq, nStatusReq, lastReq,
                   lastResp, pageLog, input, proxyVars>>

\* main: code, err := runPrChecks(...); os.Exit(code)
MainExit ==
    /\ pc = "returned"
    /\ osExit' = IF err # << >> /\ code = 0 THEN 1 ELSE code
    /\ pc' = "exited"
    /\ UNCHANGED <<watch, failFast, sha, nextPage, all, rawRuns, rawStatuses, checks, counts,
                   code, err, cycles, sleeps, nPRReq, nRunsReq, nStatusReq, lastReq,
                   lastResp, pageLog, input, proxyVars>>

Next ==
    \/ ParseArgs
    \/ FindPR
    \/ FetchCheckRunsPage
    \/ FetchCombinedStatus
    \/ Evaluate
    \/ Sleep
    \/ Return
    \/ MainExit

Spec == Init /\ [][Next]_vars

\* the run is one sequential process: once a fetch cycle is complete it goes
\* on through the stop decision, the final print and the exit without waiting
\* for anything outside it
SpecFair == Spec /\ WF_vars(Evaluate) /\ WF_vars(Return) /\ WF_vars(MainExit)

TypeOK ==
    /\ pc \in {"start", "findPR", "fetchRuns", "fetchStatus", "evaluate", "sleep",
               "final", "returned", "exited"}
    /\ code \in {-1, 0, 1, pendingExitCode}

----------------------------------------------------------------------------
(* Aggregation on its own: fetchAndAggregateChecks applied to bounded raw   *)
(* collections                                                             *)

\* the raw inputs are drawn from two families: up to MaxRuns check-runs with
\* varied names, states and start times next to at most one status, and at most
\* one check-run next to up to MaxStatuses statuses
AggRunStates == {<<str_completed, str_failure>>, <<str_in_progress, str_empty>>}
AggRuns == {mkRun(n, st[1], st[2], t) : n \in CheckNames, st \in AggRunStates, t \in 0..MaxTime}
FewStatuses == {<< >>} \cup {<<mkStatus("build", st)>> : st \in {str_success, str_pending}}

FewRunStates == AggRunStates \cup {<<str_completed, str_success>>, <<str_completed, str_cancelled>>,
                                  <<str_completed, str_skipped>>}
FewRuns == {<< >>} \cup {<<mkRun(n, st[1], st[2], t)>> :
                           n \in CheckNames, st \in FewRunStates, t \in 0..MaxTime}
AggStatuses == {mkStatus(c, st) : c \in Contexts, st \in {str_success, str_failure, str_pending}}

SeqsUpTo(S, n) == UNION {[1..k -> S] : k \in 0..n}

InitAgg ==
    /\ pc = "aggregate"
    /\ watch = FALSE /\ failFast = FALSE /\ sha = "" /\ nextPage = 0 /\ all = << >>
    /\ \/ /\ rawRuns \in SeqsUpTo(AggRuns, MaxRuns)
          /\ rawStatuses \in FewStatuses
       \/ /\ rawRuns \in FewRuns
          /\ rawStatuses \in SeqsUpTo(AggStatuses, MaxStatuses)
    /\ checks = << >>
    /\ counts = zeroCounts
    /\ code = -1
    /\ err = << >>
    /\ osExit = -1
    /\ cycles = 0
    /\ sleeps = 0
    /\ nPRReq = 0
    /\ nRunsReq = 0
    /\ nStatusReq = 0
    /\ lastReq = noReq
    /\ lastResp = "none"
    /\ pageLog = << >>
    /\ input = << >>
    /\ proxyIdle

\* fetchAndAggregateChecks after both retrievals returned rawRuns, rawStatuses
Aggregate ==
    /\ pc = "aggregate"
    /\ LET agg == aggregate(rawRuns, rawStatuses) IN
        /\ checks' = agg.checks
        /\ counts' = agg.counts
    /\ pc' = "aggregated"
    /\ UNCHANGED <<watch, failFast, sha, nextPage, all, rawRuns, rawStatuses, code, err, osExit,
                   cycles, sleeps, nPRReq, nRunsReq, nStatusReq, lastReq,
                   lastResp, pageLog, input, proxyVars>>

NextAgg == Aggregate

SpecAgg == InitAgg /\ [][NextAgg]_vars

----------------------------------------------------------------------------
(* Aggregation of commit statuses that carry creation times *)

\* statuses of either context in three states, created at any instant
TimedStatuses ==
    {[mkStatus(c, st) EXCEPT !.CreatedAt = t] :
        c \in Contexts, st \in {str_success, str_failure, str_pending}, t \in 0..MaxTime}

InitAggStatuses ==
    /\ pc = "aggregate"
    /\ watch = FALSE /\ failFast = FALSE /\ sha = "" /\ nextPage = 0 /\ all = << >>
    /\ rawRuns \in {<< >>, <<mkRun("build", str_completed, str_success, 1)>>}
    /\ rawStatuses \in SeqsUpTo(TimedStatuses, MaxStatuses)
    /\ checks = << >>
    /\ counts = zeroCounts
    /\ code = -1
    /\ err = << >>
    /\ osExit = -1
    /\ cycles = 0
    /\ sleeps = 0
    /\ nPRReq = 0
    /\ nRunsReq = 0
    /\ nStatusReq = 0
    /\ lastReq = noReq
    /\ lastResp = "none"
    /\ pageLog = << >>
    /\ input = << >>
    /\ proxyIdle

SpecAggStatuses == InitAggStatuses /\ [][NextAgg]_vars

----------------------------------------------------------------------------
(* Aggregation applied twice to one slice: the second application reads the *)
(* slice as the in-place sort of the first left it                         *)

\* check-runs of either name and state that started at one of the two latest instants
TwiceRuns == {r \in AggRuns : r.StartedAt >= MaxTime - 1}

InitAggTwice ==
    /\ pc = "aggregate"
    /\ watch = FALSE /\ failFast = FALSE /\ sha = "" /\ nextPage = 0
    /\ rawRuns \in SeqsUpTo(TwiceRuns, MaxRuns)
    /\ all = rawRuns
    /\ rawStatuses = <<mkStatus("build", str_success)>>
    /\ checks = << >>
    /\ counts = zeroCounts
    /\ code = -1
    /\ err = << >>
    /\ osExit = -1
    /\ cycles = 0
    /\ sleeps = 0
    /\ nPRReq = 0
    /\ nRunsReq = 0
    /\ nStatusReq = 0
    /\ lastReq = noReq
    /\ lastResp = "none"
    /\ pageLog = << >>
    /\ input = << >>
    /\ proxyIdle

\* the aggregation of fetchAndAggregateChecks on the slice `all`, which
\* sortCheckRunsByTime reorders in place
AggregateInPlace ==
    /\ pc \in {"aggregate", "aggregatedOnce"}
    /\ LET agg == aggregate(all, rawStatuses) IN
        /\ checks' = agg.checks
        /\ counts' = agg.counts
        /\ all' = agg.runs
    /\ pc' = IF pc = "aggregate" THEN "aggregatedOnce" ELSE "aggregatedTwice"
    /\ UNCHANGED <<watch, failFast, sha, nextPage, rawRuns, rawStatuses, code, err, osExit,
                   cycles, sleeps, nPRReq, nRunsReq, nStatusReq, lastReq,
                   lastResp, pageLog, input, proxyVars>>

NextAggTwice == AggregateInPlace

SpecAggTwice == InitAggTwice /\ [][NextAggTwice]_vars

----------------------------------------------------------------------------
(* The check-runs retrieval on its own: fetchCheckRuns against an upstream  *)
(* whose pages are fixed at the start                                      *)

\* runs one page of the upstream's listing holds
PageRuns ==
    {<< >>, <<mkRun("build", str_completed, str_failure, 1)>>,
     <<mkRun("test", str_in_progress, str_empty, 1)>>,
     <<mkRun("build", str_completed, str_success, 1), mkRun("build", str_completed, str_failure, 1)>>}

\* Link headers of page p: the continuation, when there is one, is a later page
PageLinks(p) ==
    {<< >>, <<mkLink("prev", p - 1)>>, <<mkLink("first", 1), mkLink("last", p)>>}
    \cup UNION {{<<mkLink("next", q)>>,
                 <<mkLink("prev", p - 1), mkLink("next", q), mkLink("last", MaxPages)>>,
                 <<mkLink("next", 0), mkLink("next", q)>>} : q \in (p + 1)..MaxPages}

\* answers of the upstream for page p
PageAnswers(p) ==
    {[resp |-> "ok", runs |-> rs, link |-> l] : rs \in PageRuns, l \in PageLinks(p)}
    \cup {[resp |-> r, runs |-> << >>, link |-> << >>] : r \in {"serverErr", "decodeErr"}}

InitPages ==
    /\ pc = "fetchRuns"
    /\ watch = FALSE /\ failFast = FALSE /\ sha = "sha1" /\ nextPage = 1
    /\ all = << >>
    /\ rawRuns = << >>
    /\ rawStatuses = << >>
    /\ checks = << >>
    /\ counts = zeroCounts
    /\ code = -1
    /\ err = << >>
    /\ osExit = -1
    /\ cycles = 0
    /\ sleeps = 0
    /\ nPRReq = 0
    /\ nRunsReq = 0
    /\ nStatusReq = 0
    /\ lastReq = noReq
    /\ lastResp = "none"
    /\ pageLog = << >>
    /\ proxyIdle
    /\ input \in {f \in [1..MaxPages -> UNION {PageAnswers(p) : p \in 1..MaxPages}] :
                     \A p \in 1..MaxPages : f[p] \in PageAnswers(p)}

\* fetchCheckRuns: one iteration of the loop, answered by the upstream's page
FetchUpstreamPage ==
    /\ pc = "fetchRuns"
    /\ fetchCheckRunsPage(input[nextPage].resp, input[nextPage].runs, input[nextPage].link)
    /\ pageLog' = Append(pageLog, nextPage)

NextPages == FetchUpstreamPage

SpecPages == InitPages /\ [][NextPages]_vars

\* the scheduling of a sequential program: a step that can be taken is taken
SpecPagesFair == SpecPages /\ WF_vars(NextPages)

----------------------------------------------------------------------------
(* Display order on its own: sortChecks applied to bounded lists of checks *)

mkCheck(bucket, name, link) ==
    [Name |-> name, State |-> str_empty, Link |-> link, StartedAt |-> 0, Bucket |-> bucket]

\* checks of every bucket named a or b, and a second passing check named a
\* with another link
SortInputs ==
    {mkCheck(b, n, <<"u">>) : b \in {"pass", "fail", "pending", "skipping", "cancel"},
                             n \in {<<"a">>, <<"b">>}}
    \cup {mkCheck("pass", <<"a">>, <<"v">>)}

InitSort ==
    /\ pc = "sort"
    /\ watch = FALSE /\ failFast = FALSE /\ sha = "" /\ nextPage = 0
    /\ all = << >>
    /\ rawRuns = << >>
    /\ rawStatuses = << >>
    /\ proxyIdle
    /\ input \in SeqsUpTo(SortInputs, MaxChecks)
    /\ checks = input
    /\ counts = zeroCounts
    /\ code = -1
    /\ err = << >>
    /\ osExit = -1
    /\ cycles = 0
    /\ sleeps = 0
    /\ nPRReq = 0
    /\ nRunsReq = 0
    /\ nStatusReq = 0
    /\ lastReq = noReq
    /\ lastResp = "none"
    /\ pageLog = << >>

\* printTable: sortChecks(checks), in place
SortChecks ==
    /\ pc = "sort"
    /\ checks' = sortChecks(checks)
    /\ pc' = "sorted"
    /\ UNCHANGED <<watch, failFast, sha, nextPage, all, rawRuns, rawStatuses, counts, code, err,
                   osExit, cycles, sleeps, nPRReq, nRunsReq, nStatusReq, lastReq,
                   lastResp, pageLog, input, proxyVars>>

NextSort == SortChecks

SpecSort == InitSort /\ [][NextSort]_vars

----------------------------------------------------------------------------
(* Pull request resolution on its own: findPR applied to selectors of every *)
(* shape                                                                   *)

\* decimal numbers: the short ones over three digits, the greatest int, the
\* number after it, and a number of twenty digits
NumberTexts ==
    UNION {[1..k -> {"0", "4", "9"}] : k \in 1..MaxDigits}
    \cup {maxIntText, minIntMagnitude, <<"9","9","9","9","9","9","9","9","9","9","9","9","9","9","9","9","9","9","9","9">>}

str_httpsHost == <<"h","t","t","p","s",":","/","/","h">>
str_httpHost == <<"h","t","t","p",":","/","/","h">>
str_files == <<"/","f","i","l","e","s">>

ResolveSelectors ==
    {str_empty}
    \cup UNION {{n, str_hash \o n, <<"+">> \o n, <<"-">> \o n,
                 str_httpsHost \o str_pull \o n,
                 str_httpsHost \o str_pull \o n \o str_files,
                 str_httpHost \o str_pull \o n \o str_files} : n \in NumberTexts}
    \cup {<<"m","a","i","n">>, str_hash, <<"#","#","4","2">>, <<"4","2","a">>,
          str_httpsHost \o <<"/","p","u","l","l","s">>, str_httpsHost \o str_pull \o <<"x">>,
          <<"f","e","a","t","u","r","e","/","p","u","l","l","/","7">>}

InitResolve ==
    /\ pc = "findPR"
    /\ watch = FALSE /\ failFast = FALSE /\ sha = "" /\ nextPage = 0
    /\ all = << >>
    /\ rawRuns = << >>
    /\ rawStatuses = << >>
    /\ checks = << >>
    /\ counts = zeroCounts
    /\ code = -1
    /\ err = << >>
    /\ osExit = -1
    /\ cycles = 0
    /\ sleeps = 0
    /\ nPRReq = 0
    /\ nRunsReq = 0
    /\ nStatusReq = 0
    /\ lastReq = noReq
    /\ lastResp = "none"
    /\ pageLog = << >>
    /\ proxyIdle
    /\ input \in [selector : ResolveSelectors, branchOK : BOOLEAN, branch : {str_dev},
                   resp : Responses, prSha : {"sha0"}, prs : PRLists]

\* pr, err := findPR(...) for the selector, the git state and the upstream
\* answer fixed at the start
ResolveSelector ==
    /\ pc = "findPR"
    /\ findPR(input.selector, input.branchOK, input.branch, input.resp, input.prSha, input.prs)
    /\ UNCHANGED <<watch, failFast, all, rawRuns, rawStatuses, checks, counts, osExit,
                   cycles, sleeps, nRunsReq, nStatusReq, pageLog, input, proxyVars>>

NextResolve == ResolveSelector

SpecResolve == InitResolve /\ [][NextResolve]_vars

----------------------------------------------------------------------------
(* Classification on its own: checkFromRun and checkFromStatus applied to   *)
(* single raw signals with varied spelling                                 *)

ClassifyRunStatuses ==
    {str_completed, str_COMPLETED, str_Completed, str_complete, str_in_progress, str_queued,
     str_waiting, str_empty, str_success, str_FAILURE, str_cancelled}
ClassifyConclusions ==
    {str_empty, str_success, str_SUCCESS, str_Success, str_skipped, str_SKIPPED, str_Skipped,
     str_neutral, str_NEUTRAL, str_failure, str_FAILURE, str_error, str_Error, str_timed_out,
     str_TIMED_OUT, str_action_required, str_Action_Required, str_cancelled, str_CANCELLED,
     str_canceled, str_stale, str_bogus, str_startup_failure, str_in_progress}
ClassifyStates ==
    {str_success, str_SUCCESS, str_Success, str_failure, str_FAILURE, str_error, str_ERROR,
     str_Error, str_pending, str_PENDING, str_empty, str_cancelled, str_skipped, str_neutral,
     str_timed_out, str_bogus}

InitClassify ==
    /\ watch = FALSE /\ failFast = FALSE /\ sha = "" /\ nextPage = 0 /\ all = << >>
    /\ \/ /\ pc = "classifyRun"
          /\ rawRuns \in {<<mkRun("build", st, cn, 1)>> :
                            st \in ClassifyRunStatuses, cn \in ClassifyConclusions}
          /\ rawStatuses = << >>
       \/ /\ pc = "classifyStatus"
          /\ rawRuns = << >>
          /\ rawStatuses \in {<<mkStatus("build", st)>> : st \in ClassifyStates}
    /\ checks = << >>
    /\ counts = zeroCounts
    /\ code = -1
    /\ err = << >>
    /\ osExit = -1
    /\ cycles = 0
    /\ sleeps = 0
    /\ nPRReq = 0
    /\ nRunsReq = 0
    /\ nStatusReq = 0
    /\ lastReq = noReq
    /\ lastResp = "none"
    /\ pageLog = << >>
    /\ input = << >>
    /\ proxyIdle

\* c := checkFromRun(run); incrementCounts(&counts, c.Bucket); checks = append(checks, c)
ClassifyRun ==
    /\ pc = "classifyRun"
    /\ LET c == checkFromRun(rawRuns[1]) IN
        /\ checks' = <<c>>
        /\ counts' = incrementCounts(zeroCounts, c.Bucket)
    /\ pc' = "classifiedRun"
    /\ UNCHANGED <<watch, failFast, sha, nextPage, all, rawRuns, rawStatuses, code, err, osExit,
                   cycles, sleeps, nPRReq, nRunsReq, nStatusReq, lastReq,
                   lastResp, pageLog, input, proxyVars>>

\* c := checkFromStatus(s); incrementCounts(&counts, c.Bucket); checks = append(checks, c)
ClassifyStatus ==
    /\ pc = "classifyStatus"
    /\ LET c == checkFromStatus(rawStatuses[1]) IN
        /\ checks' = <<c>>
        /\ counts' = incrementCounts(zeroCounts, c.Bucket)
    /\ pc' = "classifiedStatus"
    /\ UNCHANGED <<watch, failFast, sha, nextPage, all, rawRuns, rawStatuses, code, err, osExit,
                   cycles, sleeps, nPRReq, nRunsReq, nStatusReq, lastReq,
                   lastResp, pageLog, input, proxyVars>>

NextClassify == ClassifyRun \/ ClassifyStatus

SpecClassify == InitClassify /\ [][NextClassify]_vars

----------------------------------------------------------------------------
(* Properties of the run: exit code, watch loop, flag validation *)

returnedOK == pc \in {"returned", "exited"} /\ err = << >>

\* C1: whenever runPrChecks returns without error, its exit code is 1 if the
\* final counts have Failed > 0, else 8 if they have Pending > 0, else 0; a
\* failure dominates pending, and Passed, Skipping, Canceled play no part.
C1_ExitCodeFromCounts ==
    returnedOK =>
        /\ (counts.Failed > 0 => code = 1)
        /\ (counts.Failed = 0 /\ counts.Pending > 0 => code = 8)
        /\ (counts.Failed = 0 /\ counts.Pending = 0 => code = 0)

C1_Witness ==
    /\ returnedOK
    /\ counts.Failed > 0 /\ counts.Pending > 0 /\ counts.Canceled > 0
    /\ code = 1

\* a run that ended without error on counts with cancelled and passed checks only
C1_WitnessOther ==
    /\ returnedOK
    /\ counts.Failed = 0 /\ counts.Pending = 0 /\ counts.Canceled > 0 /\ counts.Passed > 0
    /\ code = 0

\* C2: in a watch run every completed fetch cycle is followed by the stop
\* decision; the loop stops exactly when Pending = 0 or (fail-fast and
\* Failed > 0), and otherwise sleeps once and then starts another fetch cycle.
C2_WatchLoopDecision ==
    [][ /\ (pc = "fetchStatus" /\ watch /\ pc' # "returned" => pc' = "evaluate")
        /\ (pc = "evaluate" =>
              /\ watch
              /\ (pc' = "final") <=> (counts.Pending = 0 \/ (failFast /\ counts.Failed > 0))
              /\ (pc' = "sleep") <=> ~(counts.Pending = 0 \/ (failFast /\ counts.Failed > 0))
              /\ cycles' = cycles /\ sleeps' = sleeps)
        /\ (pc = "sleep" =>
              /\ sleeps' = sleeps + 1
              /\ pc' = "fetchRuns" /\ nextPage' = 1
              /\ nRunsReq' = nRunsReq /\ nStatusReq' = nStatusReq)
        /\ (pc = "fetchRuns" /\ nextPage = 1 => cycles' = cycles + 1)
      ]_vars

\* without fail-fast the loop went on to a second cycle and is about to wait
\* again although a failure is visible
C2_Witness ==
    /\ watch /\ ~failFast
    /\ pc = "sleep" /\ cycles = 2 /\ sleeps = 1
    /\ counts.Failed > 0 /\ counts.Pending > 0

\* C3: in a watch run with fail-fast, once a fetch cycle has yielded Failed > 0
\* together with Pending > 0, no further fetch cycle, request or sleep happens
\* and the run ends with exit code 1.
C3_FailFastStops ==
    [][ (/\ watch /\ failFast
         /\ pc \in {"evaluate", "final", "returned", "exited"}
         /\ counts.Failed > 0 /\ counts.Pending > 0)
        => /\ cycles' = cycles /\ sleeps' = sleeps
           /\ nRunsReq' = nRunsReq /\ nStatusReq' = nStatusReq
           /\ counts' = counts
           /\ pc' \in {"final", "returned", "exited"}
           /\ (pc' = "returned" => code' = 1 /\ err' = << >>)
           /\ (pc' = "exited" => osExit' = 1)
      ]_vars

C3_Witness ==
    /\ watch /\ failFast
    /\ pc = "exited" /\ osExit = 1 /\ err = << >>
    /\ cycles = 1 /\ sleeps = 0
    /\ counts.Failed > 0 /\ counts.Pending > 0

\* C4: a run with --fail-fast and without --watch issues no network request
\* at all (no pull request lookup, no check-runs request, no status request)
\* and ends with an error and exit code 1.
C4_FailFastNeedsWatch ==
    (failFast /\ ~watch) =>
        /\ nPRReq = 0 /\ nRunsReq = 0 /\ nStatusReq = 0 /\ lastReq = noReq
        /\ cycles = 0 /\ sleeps = 0
        /\ pc \in {"returned", "exited"}
        /\ code = 1 /\ err # << >>
        /\ (pc = "exited" => osExit = 1)

C4_Witness ==
    /\ failFast /\ ~watch
    /\ pc = "exited" /\ osExit = 1
    /\ err = <<"--fail-fast requires --watch">>

\* C5: a run whose pull request was resolved does not get past the first
\* fetch without having started a fetch cycle, whatever the watch flag; a run
\* without --watch starts at most one fetch cycle, has started exactly one
\* when its fetch completed, never enters the loop and never sleeps.
C5_OneCycleWithoutWatch ==
    /\ (sha # "" /\ pc \in {"fetchStatus", "evaluate", "sleep", "final", "returned", "exited"}
          => cycles >= 1)
    /\ (~watch => /\ sleeps = 0
                  /\ cycles <= 1
                  /\ pc \notin {"evaluate", "sleep"}
                  /\ (pc = "final" \/ returnedOK => cycles = 1 /\ nStatusReq = 1))

C5_Witness ==
    /\ ~watch
    /\ pc = "exited" /\ err = << >>
    /\ cycles = 1 /\ sleeps = 0
    /\ counts.Pending > 0 /\ osExit = 8

----------------------------------------------------------------------------
(* Properties of the aggregation *)

Buckets == {"pass", "fail", "pending", "skipping", "cancel"}

\* number of unified checks in bucket b
inBucket(b) == Cardinality({k \in DOMAIN checks : checks[k].Bucket = b})

\* unified checks built from check-runs carry the run's html_url, those built
\* from statuses the status' target_url
fromRuns == {k \in DOMAIN checks : checks[k].Link = "run-url"}
fromStatuses == {k \in DOMAIN checks : checks[k].Link = "status-url"}

\* C6: the five counts add up to the number of unified checks, every check
\* has one of the five buckets, and each count is the number of checks of
\* its bucket.
C6_CountsMatchChecks ==
    /\ counts.Failed + counts.Passed + counts.Pending + counts.Skipping + counts.Canceled
         = Len(checks)
    /\ \A k \in DOMAIN checks : checks[k].Bucket \in Buckets
    /\ counts.Failed = inBucket("fail")
    /\ counts.Passed = inBucket("pass")
    /\ counts.Pending = inBucket("pending")
    /\ counts.Skipping = inBucket("skipping")
    /\ counts.Canceled = inBucket("cancel")

C6_Witness ==
    /\ pc = "aggregated"
    /\ Len(rawRuns) = 3 /\ Len(checks) = 3
    /\ counts.Failed = 1 /\ counts.Pending = 1 /\ counts.Passed = 1

\* an aggregation that filled the skipping and cancel buckets
C6_WitnessSkipCancel ==
    /\ pc = "aggregated"
    /\ counts.Canceled = 1 /\ counts.Failed = 1 /\ Len(checks) = 3

\* C7: the unified list has exactly one entry per distinct check-run name of
\* the raw check-runs and exactly one per distinct context of the raw
\* statuses, and nothing else; a name used by both a run and a status gives
\* two entries.
C7_OneEntryPerKey ==
    pc = "aggregated" =>
        /\ \A i \in DOMAIN rawRuns :
              Cardinality({k \in fromRuns : checks[k].Name = rawRuns[i].Name}) = 1
        /\ \A i \in DOMAIN rawStatuses :
              Cardinality({k \in fromStatuses : checks[k].Name = rawStatuses[i].Context}) = 1
        /\ Len(checks) = Cardinality({rawRuns[i].Name : i \in DOMAIN rawRuns})
                         + Cardinality({rawStatuses[i].Context : i \in DOMAIN rawStatuses})
        /\ fromRuns \cup fromStatuses = DOMAIN checks

\* two runs named build, one named test and a status named build
C7_Witness ==
    /\ pc = "aggregated"
    /\ Len(rawRuns) = 3
    /\ Cardinality({i \in DOMAIN rawRuns : rawRuns[i].Name = "build"}) = 2
    /\ Len(rawStatuses) = 1 /\ rawStatuses[1].Context = "build"
    /\ Len(checks) = 3

\* raw check-runs named n
runsNamed(n) == {i \in DOMAIN rawRuns : rawRuns[i].Name = n}

distinctStarts(I) == \A i \in I, j \in I : i # j => rawRuns[i].StartedAt # rawRuns[j].StartedAt

\* C8: when the raw check-runs of a name are several and start at pairwise
\* distinct times, the unified entry of that name has the state, bucket and
\* start time of the one that started last, wherever it stood in the pages.
C8_LatestRunWins ==
    pc = "aggregated" =>
        \A n \in CheckNames :
            (Cardinality(runsNamed(n)) >= 2 /\ distinctStarts(runsNamed(n))) =>
                LET latest == CHOOSE i \in runsNamed(n) :
                                  \A j \in runsNamed(n) : rawRuns[j].StartedAt <= rawRuns[i].StartedAt
                    state == IF ToLower(rawRuns[latest].Status) = str_completed
                             THEN rawRuns[latest].Conclusion ELSE rawRuns[latest].Status
                IN \E k \in fromRuns :
                       /\ checks[k].Name = n
                       /\ checks[k].StartedAt = rawRuns[latest].StartedAt
                       /\ ToLower(checks[k].State) = ToLower(state)

\* three runs of one name, the latest one last in upstream order and in a
\* state of its own
C8_Witness ==
    /\ pc = "aggregated"
    /\ Len(rawRuns) = 3 /\ Cardinality(runsNamed("build")) = 3
    /\ rawRuns[1].StartedAt = 1 /\ rawRuns[2].StartedAt = 0 /\ rawRuns[3].StartedAt = 2
    /\ rawRuns[3].Conclusion = str_failure /\ rawRuns[1].Status = str_in_progress
    /\ checks[1].Bucket = "fail"

----------------------------------------------------------------------------
(* Properties of the classification *)

\* the table of the specification on lower-case spellings
bucketOfRunState(low) ==
    CASE low = str_success -> "pass"
      [] low \in {str_skipped, str_neutral} -> "skipping"
      [] low \in {str_failure, str_error, str_timed_out, str_action_required} -> "fail"
      [] low = str_cancelled -> "cancel"
      [] OTHER -> "pending"

\* C9: a check-run is classified by its conclusion when its lifecycle status
\* is "completed" in any spelling of case, and by its lifecycle status
\* otherwise; the value is looked up without regard to case: success->pass;
\* skipped, neutral->skipping; failure, error, timed_out, action_required->
\* fail; cancelled->cancel; anything else, the empty string included->pending.
C9_RunBucketTable ==
    pc = "classifiedRun" =>
        LET run == rawRuns[1]
            key == IF ToLower(run.Status) = str_completed THEN run.Conclusion ELSE run.Status
        IN checks[1].Bucket = bucketOfRunState(ToLower(key))

\* a completed run (capitalised spelling) whose conclusion is Action_Required
C9_Witness ==
    /\ pc = "classifiedRun"
    /\ rawRuns[1].Status = str_Completed
    /\ rawRuns[1].Conclusion = str_Action_Required
    /\ checks[1].Bucket = "fail"

\* a completed run with an empty conclusion
C9_WitnessEmpty ==
    /\ pc = "classifiedRun"
    /\ rawRuns[1].Status = str_COMPLETED
    /\ rawRuns[1].Conclusion = str_empty
    /\ checks[1].Bucket = "pending"

\* C10: a commit status is classified pass when its state is success, fail
\* when it is failure or error, pending for every other state, without
\* regard to case; it is never classified skipping or cancel.
C10_StatusBucketTable ==
    pc = "classifiedStatus" =>
        LET up == ToUpper(rawStatuses[1].State) IN
        /\ (up = str_SUCCESS <=> checks[1].Bucket = "pass")
        /\ (up \in {str_FAILURE, str_ERROR} <=> checks[1].Bucket = "fail")
        /\ (up \notin {str_SUCCESS, str_FAILURE, str_ERROR} <=> checks[1].Bucket = "pending")
        /\ checks[1].Bucket \notin {"skipping", "cancel"}

C10_Witness ==
    /\ pc = "classifiedStatus"
    /\ rawStatuses[1].State = str_Error
    /\ checks[1].Bucket = "fail"

\* a status whose state would be skipping or cancel for a check-run
C10_WitnessCancelled ==
    /\ pc = "classifiedStatus"
    /\ rawStatuses[1].State \in {str_cancelled, str_skipped}
    /\ checks[1].Bucket = "pending"

----------------------------------------------------------------------------
(* Properties of repeated aggregation *)

\* C11: aggregating the same raw collections a second time yields the same
\* unified list and the same counts as the first time, although the first
\* application has reordered the check-run slice in place: the second
\* application, which reads the reordered slice, changes neither the list nor
\* the counts nor the order of the slice
C11_AggregateTwiceSame ==
    [][pc = "aggregatedOnce" =>
         /\ checks' = checks
         /\ counts' = counts
         /\ all' = all]_vars

\* C11 witness: the second application has run on a slice the first one
\* reordered, holding two runs of one name that started at the same instant
C11_Witness ==
    /\ pc = "aggregatedTwice"
    /\ all # rawRuns
    /\ \E i \in DOMAIN rawRuns, j \in DOMAIN rawRuns :
         /\ i < j
         /\ rawRuns[i].Name = rawRuns[j].Name
         /\ rawRuns[i].StartedAt = rawRuns[j].StartedAt
         /\ rawRuns[i].Status # rawRuns[j].Status

----------------------------------------------------------------------------
(* Properties of the fetch cycle *)

fetchWraps == {"fetching check runs", "fetching commit status"}

\* C12: an exchange of a fetch cycle that does not succeed ends the run at
\* once: runPrChecks returns 1 with an error without sleeping, and from then on
\* no request is issued, no sleep happens and the process exits with code 1
C12_TransportErrorEndsRun ==
    [][/\ (pc \in {"fetchRuns", "fetchStatus"} /\ lastResp' # "ok") =>
            /\ pc' = "returned"
            /\ code' = 1
            /\ err' # << >>
            /\ err'[1] \in fetchWraps
            /\ sleeps' = sleeps
       /\ (pc \in {"returned", "exited"} /\ err # << >> /\ err[1] \in fetchWraps) =>
            /\ nPRReq' = nPRReq /\ nRunsReq' = nRunsReq /\ nStatusReq' = nStatusReq
            /\ sleeps' = sleeps
            /\ pc' = "exited"
            /\ osExit' = 1]_vars

\* C12 witness: the process has exited with 1 after the status request of the
\* second cycle of a watch failed
C12_Witness ==
    /\ pc = "exited"
    /\ osExit = 1
    /\ err # << >>
    /\ err[1] = "fetching commit status"
    /\ lastResp = "serverErr"
    /\ cycles = 2
    /\ sleeps = 1

\* C13: a fetch cycle either completes both retrievals and sets the list and
\* the counts to the aggregation of both answers, or it returns an error with
\* an empty list and zero counts. When the check-runs retrieval fails, the
\* error is marked "fetching check runs" and the status request of that cycle
\* is never issued; when the status retrieval fails, the error is marked
\* "fetching commit status" and the check-runs already fetched are dropped
C13_CycleAllOrNothing ==
    [][/\ (pc = "fetchRuns" /\ lastResp' # "ok") =>
            /\ checks' = << >> /\ counts' = zeroCounts
            /\ err' # << >> /\ err'[1] = "fetching check runs"
            /\ pc' = "returned"
            /\ nStatusReq' = nStatusReq
            /\ nStatusReq' = cycles' - 1
       /\ (pc \in {"returned", "exited"} /\ err # << >> /\ err[1] = "fetching check runs") =>
            nStatusReq' = nStatusReq
       /\ (pc = "fetchStatus" /\ lastResp' # "ok") =>
            /\ checks' = << >> /\ counts' = zeroCounts
            /\ err' # << >> /\ err'[1] = "fetching commit status"
            /\ pc' = "returned"
            /\ all' = << >> /\ rawRuns' = << >>
       /\ (pc = "fetchStatus" /\ lastResp' = "ok") =>
            /\ err' = << >>
            /\ nStatusReq' = cycles'
            /\ rawRuns' = all
            /\ {checks'[k].Name : k \in DOMAIN checks'} =
                 {all[i].Name : i \in DOMAIN all}
                 \cup {rawStatuses'[i].Context : i \in DOMAIN rawStatuses'}
            /\ counts'.Passed + counts'.Failed + counts'.Pending
                 + counts'.Skipping + counts'.Canceled = Len(checks')]_vars

\* C13 witness: the check-runs retrieval of the second cycle failed after the
\* first cycle had produced checks; no second status request was issued
C13_Witness ==
    /\ pc = "returned"
    /\ err # << >>
    /\ err[1] = "fetching check runs"
    /\ cycles = 2
    /\ nStatusReq = 1
    /\ checks = << >>

\* C13 witness: the status retrieval failed after two pages of check-runs
\* had been fetched in the same cycle
C13_WitnessStatus ==
    /\ pc = "returned"
    /\ err # << >>
    /\ err[1] = "fetching commit status"
    /\ cycles = 1
    /\ nRunsReq = 2
    /\ checks = << >>

----------------------------------------------------------------------------
(* Properties of pagination *)

\* the page the rel="next" part of a Link header points to (0: none)
nextOf(link) ==
    LET nexts == {i \in DOMAIN link : link[i].rel = "next" /\ link[i].page # 0} IN
    IF nexts = {} THEN 0
    ELSE link[CHOOSE i \in nexts : \A k \in nexts : i <= k].page

RECURSIVE chainFrom(_, _)
\* the chain of pages of upstream up that starts at page p: it ends with the
\* first page without continuation or the first page that is not answered 200
chainFrom(up, p) ==
    IF p = 0 THEN << >>
    ELSE IF up[p].resp # "ok" THEN <<p>>
    ELSE <<p>> \o chainFrom(up, nextOf(up[p].link))

RECURSIVE runsOf(_, _)
\* concatenation of the runs of the pages ps of upstream up, in the order of ps
runsOf(up, ps) ==
    IF Len(ps) = 0 THEN << >>
    ELSE up[ps[1]].runs \o runsOf(up, Tail(ps))

C14_FollowsChain ==
    LET chain == chainFrom(input, 1) IN
    /\ Len(pageLog) <= Len(chain)
    /\ pageLog = SubSeq(chain, 1, Len(pageLog))
    /\ \A i \in DOMAIN pageLog, j \in DOMAIN pageLog : i # j => pageLog[i] # pageLog[j]
    /\ nRunsReq = Len(pageLog)
    /\ pc = "fetchRuns" =>
         /\ Len(pageLog) < Len(chain)
         /\ nextPage = chain[Len(pageLog) + 1]
         /\ all = runsOf(input, pageLog)
    /\ pc = "fetchStatus" =>
         /\ pageLog = chain
         /\ \A i \in DOMAIN chain : input[chain[i]].resp = "ok"
         /\ all = runsOf(input, chain)
    /\ pc = "returned" =>
         /\ pageLog = chain
         /\ input[chain[Len(chain)]].resp # "ok"
         /\ all = << >> /\ checks = << >>
         /\ err # << >> /\ err[1] = "fetching check runs"

\* C14: the check-run retrieval requests the first page and then each
\* continuation page once, in chain order, until an answer carries no
\* rel="next" link; it returns the runs of the pages concatenated in page
\* order; it ends for every finite chain, whatever the chain's length; an
\* answer other than 200 at any page fails the retrieval with no runs
C14_PaginationFollowsChain ==
    /\ []C14_FollowsChain
    /\ <>(pc # "fetchRuns")

\* C14 witness: the retrieval ended well after as many pages as the upstream
\* has, the first header naming its continuation after an unrelated part
C14_Witness ==
    /\ pc = "fetchStatus"
    /\ Len(pageLog) = MaxPages
    /\ Len(input[1].link) > 1
    /\ input[1].link[1].rel # "next"
    /\ Len(all) > MaxPages

\* C14 witness: a page after the first was not answered 200
C14_WitnessFailure ==
    /\ pc = "returned"
    /\ Len(pageLog) > 1
    /\ input[1].runs # << >>

----------------------------------------------------------------------------
(* Properties of the display order *)

\* fail, pending, and the three other buckets as one class
bucketClass(b) == IF b = "fail" THEN 0 ELSE IF b = "pending" THEN 1 ELSE 2

occurrences(cs, c) == Cardinality({i \in DOMAIN cs : cs[i] = c})

\* C15: after sortChecks every fail check precedes every pending check and
\* every pending check precedes every check of the other buckets, and the
\* sorted list is a permutation of the list given
C15_FailPendingRest ==
    pc = "sorted" =>
        /\ \A i \in DOMAIN checks, j \in DOMAIN checks :
             i < j => bucketClass(checks[i].Bucket) <= bucketClass(checks[j].Bucket)
        /\ Len(checks) = Len(input)
        /\ \A k \in DOMAIN input : occurrences(checks, input[k]) = occurrences(input, input[k])

\* C15 witness: a list that began with a passing check, then a pending one,
\* then a failed one has been sorted
C15_Witness ==
    /\ pc = "sorted"
    /\ Len(input) = 3
    /\ input[1].Bucket = "pass" /\ input[2].Bucket = "pending" /\ input[3].Bucket = "fail"
    /\ checks[1].Bucket = "fail"

\* C16: after sortChecks any two checks of the same bucket stand in ascending
\* name order, and two of the same bucket and name in ascending link order,
\* also when the list mixes the buckets pass, skipping and cancel
C16_SameBucketByName ==
    pc = "sorted" =>
        \A i \in DOMAIN checks, j \in DOMAIN checks :
            (i < j /\ checks[i].Bucket = checks[j].Bucket) =>
                /\ ~strLess(checks[j].Name, checks[i].Name)
                /\ checks[i].Name = checks[j].Name => ~strLess(checks[j].Link, checks[i].Link)

\* the list pass b, skipping a, pass a has been sorted and came out unchanged
C16_FailingInput ==
    /\ pc = "sorted"
    /\ input = <<mkCheck("pass", <<"b">>, <<"u">>), mkCheck("skipping", <<"a">>, <<"u">>),
                 mkCheck("pass", <<"a">>, <<"u">>)>>
    /\ checks = input

----------------------------------------------------------------------------
(* Properties of pull request resolution *)

resolved == pc # "findPR"

\* a non-empty run of decimal digits
isDecimal(s) == Len(s) > 0 /\ \A i \in DOMAIN s : IsDigit(s[i])

\* the selector matches ^#?\d+$
isNumberSelector(s) == isDecimal(TrimPrefix(s, str_hash))

\* the selector contains /pull/ followed by a digit
hasPullDigits(s) == pullMatches(s) # {}

\* the selector begins with a URL scheme
isURL(s) == HasPrefix(s, str_https) \/ HasPrefix(s, <<"h","t","t","p",":","/","/">>)

\* C17: for every decimal number N the selectors N and #N resolve alike:
\* each issues one direct lookup of pull request N and no branch lookup
C17_NumberAndHashAlike ==
    (resolved /\ isNumberSelector(input.selector)) =>
        /\ nPRReq = 1
        /\ lastReq = mkReq("pull", stripZeros(TrimPrefix(input.selector, str_hash)),
                           << >>, "", 0)

\* the number after the greatest int was given and looked up as a branch
C17_FailingInput ==
    /\ resolved
    /\ input.selector = minIntMagnitude
    /\ lastReq.kind = "pullsByBranch"
    /\ lastReq.branch = minIntMagnitude

\* C18: a non-empty selector takes the numeric path only if it matches
\* ^#?\d+$ or is a pull request URL containing /pull/<digits>; every other
\* non-empty selector, one with a leading sign such as +42 or -42 included,
\* is looked up as a branch name
C18_NumericOnlyIfNumberOrURL ==
    (resolved /\ input.selector # str_empty) =>
        /\ lastReq.kind = "pull" =>
             (isNumberSelector(input.selector) \/ hasPullDigits(input.selector))
        /\ (~isNumberSelector(input.selector) /\ ~hasPullDigits(input.selector)) =>
             lastReq.kind = "pullsByBranch"

\* the selector +4 was given and pull request 4 was looked up directly
C18_FailingInput ==
    /\ resolved
    /\ input.selector = <<"+", "4">>
    /\ lastReq.kind = "pull"
    /\ lastReq.n = <<"4">>

\* C19: every selector that is a pull request URL containing a
\* /pull/<digits> segment, whatever follows the digits and whatever its
\* scheme, takes the numeric path to the pull request those digits name, and
\* never a branch lookup
C19_PRURLResolvesNumerically ==
    (resolved /\ isURL(input.selector) /\ hasPullDigits(input.selector)) =>
        /\ nPRReq = 1
        /\ lastReq = mkReq("pull", stripZeros(prURLDigits(input.selector)), << >>, "", 0)

\* the selector http://h/pull/4/files was given and looked up as a branch
C19_FailingInput ==
    /\ resolved
    /\ input.selector = str_httpHost \o str_pull \o <<"4">> \o str_files
    /\ lastReq.kind = "pullsByBranch"
    /\ lastReq.branch = input.selector

\* C20: a branch lookup that the upstream answers with a list returns the
\* first pull request of the list as it is when the list is not empty, and
\* fails with "no open pull request found" when it is empty; an empty selector
\* looks up the current local branch, and fails without any network request
\* when the branch cannot be determined
C20_BranchLookup ==
    resolved =>
        /\ (lastReq.kind = "pullsByBranch" /\ lastResp = "ok") =>
             IF Len(input.prs) > 0
             THEN /\ sha = input.prs[1]
                  /\ err = << >>
                  /\ pc = "fetchRuns"
             ELSE /\ err = <<"finding PR", "no open pull request found for branch">>
                  /\ code = 1
                  /\ sha = ""
        /\ (input.selector = str_empty /\ input.branchOK) =>
             /\ nPRReq = 1
             /\ lastReq = mkReq("pullsByBranch", << >>, input.branch, "", 0)
        /\ (input.selector = str_empty /\ ~input.branchOK) =>
             /\ nPRReq = 0 /\ nRunsReq = 0 /\ nStatusReq = 0
             /\ lastReq = noReq
             /\ lastResp = "none"
             /\ err = <<"finding PR", "could not detect current branch">>
             /\ code = 1

\* C20 witness: the current branch was looked up for an empty selector and
\* the upstream listed two pull requests with different heads
C20_Witness ==
    /\ resolved
    /\ input.selector = str_empty
    /\ lastReq.kind = "pullsByBranch"
    /\ lastResp = "ok"
    /\ Len(input.prs) = 2
    /\ input.prs[1] # input.prs[2]
    /\ sha = input.prs[1]

\* C20 witness: no selector and no current branch
C20_WitnessNoBranch ==
    /\ resolved
    /\ input.selector = str_empty
    /\ ~input.branchOK
    /\ nPRReq = 0
    /\ pc = "returned"

----------------------------------------------------------------------------
(* Properties of the run as a whole *)

\* C21: a pull request resolution that fails (no branch detected, pull
\* request not found, no open pull request for the branch, an answer other
\* than 200) ends the run with exit code 1 before any fetch cycle: the run
\* goes on to fetch only after a 200 answer that gave a commit, and once the
\* resolution has failed no check-runs or status request is ever issued
C21_ResolutionErrorAborts ==
    [][/\ pc = "findPR" =>
            /\ pc' = "fetchRuns" => (lastResp' = "ok" /\ sha' # "" /\ err' = << >>)
            /\ (lastResp' # "ok" \/ sha' = "") =>
                 /\ pc' = "returned"
                 /\ code' = 1
                 /\ err' # << >> /\ err'[1] = "finding PR"
                 /\ nRunsReq' = 0 /\ nStatusReq' = 0 /\ cycles' = 0
       /\ (err # << >> /\ err[1] = "finding PR") =>
            /\ nRunsReq' = 0 /\ nStatusReq' = 0 /\ cycles' = 0
            /\ pc' = "exited"
            /\ osExit' = 1]_vars

\* C21 witness: the process has exited with 1 after the direct lookup was
\* answered 404, without a single fetch request
C21_Witness ==
    /\ pc = "exited"
    /\ osExit = 1
    /\ err = <<"finding PR", "pull request not found">>
    /\ lastResp = "notFound"
    /\ nPRReq = 1
    /\ nRunsReq = 0 /\ nStatusReq = 0

\* C22: the pull request is resolved once per run and its head commit never
\* changes afterwards: every check-runs and status request of every cycle
\* names the commit the resolution returned
C22_ResolvedOnceSameCommit ==
    [][/\ nPRReq' <= 1
       /\ pc # "findPR" => (nPRReq' = nPRReq /\ sha' = sha)
       /\ lastReq'.kind \in {"check-runs", "status"} =>
            /\ nPRReq' = 1
            /\ sha' # ""
            /\ lastReq'.sha = sha']_vars

\* C22 witness: the status request of the second cycle named the commit
\* resolved at the start
C22_Witness ==
    /\ cycles = 2
    /\ sleeps = 1
    /\ lastReq.kind = "status"
    /\ lastReq.sha = "sha2"
    /\ sha = "sha2"
    /\ nPRReq = 1

\* C23: the counts and the list the stop decision and the exit code are taken
\* from are the aggregation of the raw data of the last completed cycle and
\* of nothing else: one check per check-run name and one per status context
\* of that cycle, and counts that count these checks by bucket
C23_LatestCycleOnly ==
    (pc \in {"evaluate", "sleep", "final"} \/ returnedOK) =>
        /\ nStatusReq = cycles
        /\ {checks[k].Name : k \in fromRuns} = {rawRuns[i].Name : i \in DOMAIN rawRuns}
        /\ {checks[k].Name : k \in fromStatuses} =
             {rawStatuses[i].Context : i \in DOMAIN rawStatuses}
        /\ Len(checks) = Cardinality({rawRuns[i].Name : i \in DOMAIN rawRuns})
                         + Cardinality({rawStatuses[i].Context : i \in DOMAIN rawStatuses})
        /\ counts.Passed = inBucket("pass")
        /\ counts.Failed = inBucket("fail")
        /\ counts.Pending = inBucket("pending")
        /\ counts.Skipping = inBucket("skipping")
        /\ counts.Canceled = inBucket("cancel")

\* C23 witness: a watch ended after its second cycle with a single check and
\* nothing pending, so the pending check of the first cycle is gone
C23_Witness ==
    /\ pc = "final"
    /\ watch
    /\ cycles = 2
    /\ Len(checks) = 1
    /\ counts.Pending = 0
    /\ counts.Canceled = 1

----------------------------------------------------------------------------
(* Properties of status deduplication *)

\* index of the first status of context c in the combined-status list
firstOf(c) ==
    CHOOSE i \in DOMAIN rawStatuses :
        /\ rawStatuses[i].Context = c
        /\ \A k \in DOMAIN rawStatuses : rawStatuses[k].Context = c => i <= k

\* C30: when a context occurs more than once in the combined-status list, its
\* unified entry carries the state, and the creation time, of the first
\* occurrence in upstream order, whatever the creation times of the later
\* ones; the entries stand in the order of the first occurrences
C30_FirstStatusWins ==
    pc = "aggregated" =>
        /\ \A i \in DOMAIN rawStatuses :
             \E k \in fromStatuses :
                 /\ checks[k].Name = rawStatuses[i].Context
                 /\ checks[k].State = ToUpper(rawStatuses[firstOf(rawStatuses[i].Context)].State)
                 /\ checks[k].StartedAt = rawStatuses[firstOf(rawStatuses[i].Context)].CreatedAt
        /\ \A k \in fromStatuses, m \in fromStatuses :
             k < m => firstOf(checks[k].Name) < firstOf(checks[m].Name)

\* C30 witness: a context occurred twice with different states, the later
\* occurrence being the more recently created one
C30_Witness ==
    /\ pc = "aggregated"
    /\ Len(rawStatuses) >= 2
    /\ rawStatuses[1].Context = rawStatuses[2].Context
    /\ rawStatuses[1].State = str_pending
    /\ rawStatuses[2].State = str_success
    /\ rawStatuses[1].CreatedAt < rawStatuses[2].CreatedAt
    /\ counts.Pending = 1


----------------------------------------------------------------------------
(* The proxy: ProxyHandler and Validator.Validate, one handler call per     *)
(* request, the calls running concurrently over one Validator               *)

MaxClock == 2
MaxTTL == 1

str_t1 == <<"t","1">>
str_t2 == <<"t","2">>
str_o == <<"o">>
str_O == <<"O">>
str_x == <<"x">>
str_r == <<"r">>
str_ghp_cfg == <<"g","h","p","_","c">>
str_ghp_env == <<"g","h","p","_","e">>
str_gho_gh == <<"g","h","o","_","g">>

\* "/" e1 "/" e2 ...
RECURSIVE joinPath(_)
joinPath(segs) == IF Len(segs) = 0 THEN << >> ELSE str_slash \o segs[1] \o joinPath(Tail(segs))

\* a request as ProxyHandler reads it: r.Method, r.URL.Path, r.URL.RawQuery
\* and the Authorization header
mkRequest(method, path, query, authorization) ==
    [method |-> method, path |-> path, query |-> query, authorization |-> authorization]

path_checkRuns == joinPath(<<str_repos, str_o, str_r, str_commits, <<"s">>, str_check_runs>>)
path_statusUpper == joinPath(<<str_repos, str_O, str_r, str_commits, <<"s">>, str_status>>)
path_otherOrg == joinPath(<<str_repos, str_x, str_r, str_check_runs, <<"7">>>>)

\* paths of the whitelisted routes, paths next to them and paths elsewhere
ProxyPaths ==
    {path_checkRuns, path_statusUpper, path_otherOrg,
     joinPath(<<str_repos, str_o, str_r, str_statuses, <<"%">>>>),
     joinPath(<<str_repos, str_o, str_r, str_commits, <<"s">>, str_check_runs, << >>>>),
     joinPath(<<str_repos, str_o, str_r, str_commits, <<"s">>, str_check_runs, <<"7">>>>),
     joinPath(<<str_repos, << >>, str_r, str_commits, <<"s">>, str_status>>),
     joinPath(<<str_repos, str_o, str_r>>),
     joinPath(<<str_repos, str_o, str_r, <<"p","u","l","l","s">>, <<"7">>>>),
     joinPath(<<<<"u","s","e","r">>>>)}

ProxyMethods == {"GET", "HEAD", "POST"}

\* values of the Authorization header: absent, with the prefix, the prefix
\* alone, without the prefix, the prefix in another case
ProxyAuthorizations ==
    {<< >>, str_Bearer \o str_t1, str_Bearer, str_t2, <<"b","e","a","r","e","r"," ">> \o str_t1}

ProxyRequests ==
    {mkRequest(m, p, "", a) : m \in ProxyMethods, p \in ProxyPaths, a \in ProxyAuthorizations}
    \cup {mkRequest("GET", path_checkRuns, "per_page=100", str_Bearer \o str_t1)}

\* cfg.AllowedOrgs
ProxyOrgLists == {<< >>, <<str_O>>, <<str_x, str_o>>}

\* where the classic token is kept: the stored value and the two variables
ProxyTokenPlaces ==
    {<<str_ghp_cfg, << >>, << >>>>,
     <<<< >>, str_ghp_env, << >>>>,
     <<<< >>, <<" ">>, str_gho_gh>>,
     <<str_ghp_cfg, str_ghp_env \o <<"\n">>, str_gho_gh>>}

\* answers of api.github.com to a forwarded request
UpstreamAnswers ==
    {[status |-> 200,
      headers |-> {<<"Content-Type", "application/json">>, <<"Link", "<next>">>,
                   <<"Set-Cookie", "session">>, <<"ETag", "">>},
      body |-> "{runs}"],
     [status |-> 404,
      headers |-> {<<"X-RateLimit-Remaining", "0">>, <<"X-GitHub-Request-Id", "id">>},
      body |-> "{not found}"]}

\* status codes of api.github.com to checkGitHub's repository request
GitHubStatuses == {200, 404}

\* http.NewRequestWithContext fails on a URL that does not parse: a "%" that
\* does not start an escape, or a control character
newRequestFails(path) ==
    \E i \in DOMAIN path :
        \/ path[i] \in {"\n", "\r", "\t"}
        \/ /\ path[i] = "%"
           /\ ~(/\ i + 2 <= Len(path)
                /\ \A k \in {i + 1, i + 2} :
                      \/ IsDigit(path[k])
                      \/ LowerChar(path[k]) \in {"a", "b", "c", "d", "e", "f"})

\* a ProxyHandler call that has read its request and nothing else; verdict is
\* what Validate returned to it: "allowed", "denied", "error", or "none" before
newCall(req) ==
    [pc |-> "received", req |-> req, allowed |-> FALSE, verdict |-> "none", ghCalls |-> 0,
     sent |-> << >>, got |-> << >>, resp |-> << >>]

\* owner, repo and token of a call
ownerOf(call) == extractOwnerRepo(call.req.path).owner
repoOf(call) == extractOwnerRepo(call.req.path).repo
tokenOf(call) == fgTokenOf(call.req.authorization)
keyOf(call) == cacheKey(tokenOf(call), ownerOf(call), repoOf(call))

\* the handler writes its response and returns
respond(call, response) == [call EXCEPT !.pc = "done", !.resp = <<response>>]

\* ProxyHandler once Validate has returned allowed, nil
decide(call, allowed) ==
    LET returned == [call EXCEPT !.allowed = allowed,
                                 !.verdict = IF allowed THEN "allowed" ELSE "denied"]
    IN IF tokenRejected(allowed)
       THEN respond(returned,
                    httpError("forbidden: token does not have access to this repository", 403))
       ELSE IF newRequestFails(call.req.path)
       THEN respond(returned, httpError("internal server error", 500))
       ELSE [returned EXCEPT !.pc = "upstream"]

\* ProxyHandler up to the call of validator.Validate
Receive(r) ==
    /\ serving[r].pc = "received"
    /\ LET req == serving[r].req IN
       serving' = [serving EXCEPT ![r] =
           IF methodRejected(req.method)
           THEN respond(@, httpError("method not allowed", 405))
           ELSE IF ~pathMatches(req.path)
           THEN respond(@, httpError("not found", 404))
           ELSE IF ~extractOwnerRepo(req.path).ok
           THEN respond(@, httpError("not found", 404))
           ELSE IF orgRejected(cfg.AllowedOrgs, extractOwnerRepo(req.path).owner)
           THEN respond(@, httpError("forbidden: organization not allowed", 403))
           ELSE IF fgTokenOf(req.authorization) = << >>
           THEN respond(@, httpError("unauthorized: missing Authorization header", 401))
           ELSE [@ EXCEPT !.pc = "validate"]]
    /\ UNCHANGED <<cfg, env, ttl, now, cache, clientVars>>

\* Validate: v.cache.Load(key) and the test of the entry's expiry
ValidateLoad(r) ==
    /\ serving[r].pc = "validate"
    /\ LET key == keyOf(serving[r]) IN
       serving' = [serving EXCEPT ![r] =
           IF key \in DOMAIN cache
           THEN IF unexpired(now, cache[key].expires)
                THEN decide(@, cache[key].allowed)
                ELSE [@ EXCEPT !.pc = "delete"]
           ELSE [@ EXCEPT !.pc = "checkGitHub"]]
    /\ UNCHANGED <<cfg, env, ttl, now, cache, clientVars>>

\* Validate: v.cache.Delete(key) of the entry found expired
ValidateDelete(r) ==
    /\ serving[r].pc = "delete"
    /\ cache' = cacheDelete(cache, keyOf(serving[r]))
    /\ serving' = [serving EXCEPT ![r].pc = "checkGitHub"]
    /\ UNCHANGED <<cfg, env, ttl, now, clientVars>>

\* a Validate that remembers a failed contact with GitHub as a denial
CheckGitHub_cachesFailure(r) ==
    /\ serving[r].pc = "checkGitHub"
    /\ \/ /\ serving' = [serving EXCEPT ![r] =
                 respond([@ EXCEPT !.ghCalls = @ + 1, !.verdict = "error"],
                         httpError("error validating token: request failed", 500))]
          /\ cache' = cacheStore(cache, keyOf(serving[r]),
                                 [allowed |-> FALSE, expires |-> now + ttl])
       \/ /\ \E status \in GitHubStatuses :
                 serving' = [serving EXCEPT ![r] =
                     [@ EXCEPT !.pc = "store", !.ghCalls = @ + 1,
                               !.allowed = checkGitHub(status)]]
          /\ cache' = cache
    /\ UNCHANGED <<cfg, env, ttl, now, clientVars>>

\* Validate: checkGitHub, and ProxyHandler on its error
CheckGitHub(r) ==
    /\ serving[r].pc = "checkGitHub"
    /\ \/ serving' = [serving EXCEPT ![r] =
              respond([@ EXCEPT !.ghCalls = @ + 1, !.verdict = "error"],
                      httpError("error validating token: request failed", 500))]
       \/ \E status \in GitHubStatuses :
              serving' = [serving EXCEPT ![r] =
                  [@ EXCEPT !.pc = "store", !.ghCalls = @ + 1,
                            !.allowed = checkGitHub(status)]]
    /\ UNCHANGED <<cfg, env, ttl, now, cache, clientVars>>

\* Validate: v.cache.Store(key, cacheEntry{allowed, time.Now().Add(v.ttl)})
\* and the return to ProxyHandler
ValidateStore(r) ==
    /\ serving[r].pc = "store"
    /\ cache' = cacheStore(cache, keyOf(serving[r]),
                           [allowed |-> serving[r].allowed, expires |-> now + ttl])
    /\ serving' = [serving EXCEPT ![r] = decide(@, @.allowed)]
    /\ UNCHANGED <<cfg, env, ttl, now, clientVars>>

\* the request ProxyHandler sends upstream
upstreamRequest(call) ==
    [path |-> call.req.path, query |-> call.req.query,
     headers |-> setGitHubHeaders(cfg.ClassicToken)]

\* ProxyHandler: upstreamClient.Do and the copy of the answer
Upstream(r) ==
    /\ serving[r].pc = "upstream"
    /\ \/ serving' = [serving EXCEPT ![r] =
              respond([@ EXCEPT !.sent = <<upstreamRequest(serving[r])>>],
                      httpError("upstream error: request failed", 502))]
       \/ \E answer \in UpstreamAnswers :
              serving' = [serving EXCEPT ![r] =
                  respond([@ EXCEPT !.sent = <<upstreamRequest(serving[r])>>, !.got = <<answer>>],
                          [status |-> answer.status,
                           headers |-> forwardHeaders(answer.headers),
                           body |-> answer.body])]
    /\ UNCHANGED <<cfg, env, ttl, now, cache, clientVars>>

\* time passes
Tick ==
    /\ now < MaxClock
    /\ now' = now + 1
    /\ UNCHANGED <<cfg, env, ttl, cache, serving, clientVars>>

NextProxy ==
    \/ Tick
    \/ \E r \in DOMAIN serving : Receive(r)
    \/ \E r \in DOMAIN serving : ValidateLoad(r)
    \/ \E r \in DOMAIN serving : ValidateDelete(r)
    \/ \E r \in DOMAIN serving : CheckGitHub(r)
    \/ \E r \in DOMAIN serving : ValidateStore(r)
    \/ \E r \in DOMAIN serving : Upstream(r)

\* the pr checks client is not part of a proxy specification
clientIdle ==
    /\ pc = "proxy"
    /\ watch = FALSE /\ failFast = FALSE /\ sha = "" /\ nextPage = 0 /\ all = << >>
    /\ rawRuns = << >> /\ rawStatuses = << >> /\ checks = << >> /\ counts = zeroCounts
    /\ code = -1 /\ err = << >> /\ osExit = -1 /\ cycles = 0 /\ sleeps = 0
    /\ nPRReq = 0 /\ nRunsReq = 0 /\ nStatusReq = 0 /\ lastReq = noReq
    /\ lastResp = "none" /\ pageLog = << >> /\ input = << >>

\* an entry a request served earlier has left in the cache
EarlierEntries ==
    {[k \in {cacheKey(str_t1, str_o, str_r)} |-> [allowed |-> a, expires |-> e]] :
        a \in BOOLEAN, e \in 0..1}

\* one request against a proxy in any of its configurations
InitProxy ==
    /\ clientIdle
    /\ \E orgs \in ProxyOrgLists, place \in ProxyTokenPlaces :
          /\ cfg = [AllowedOrgs |-> orgs, ClassicToken |-> place[1]]
          /\ env = [GH_CHECKPROXY_CLASSIC_TOKEN |-> place[2], GH_TOKEN |-> place[3]]
    /\ ttl = 1
    /\ now = 0
    /\ cache \in {[k \in {} |-> 0]} \cup EarlierEntries
    /\ \E req \in ProxyRequests : serving = [r \in {1} |-> newCall(req)]

SpecProxy == InitProxy /\ [][NextProxy]_vars

----------------------------------------------------------------------------
(* Properties of the proxy's gate *)

\* the endpoints the README lists: /repos/{owner}/{repo}/ followed by one of
\* nine tails, every placeholder a non-empty text without "/"
onWhitelist(path) ==
    /\ Len(path) > 0
    /\ path[1] = "/"
    /\ LET segs == splitSlash(Drop(path, 1))
           tail == SubSeq(segs, 4, Len(segs))
       IN /\ Len(segs) \in {5, 6}
          /\ segs[1] = str_repos
          /\ \A i \in DOMAIN segs : segs[i] # << >>
          /\ \/ /\ Len(tail) = 3
                /\ tail[1] = str_commits
                /\ tail[3] \in {str_check_runs, str_check_suites, str_status, str_statuses}
             \/ /\ Len(tail) = 2
                /\ tail[1] \in {str_check_runs, str_check_suites, str_statuses}
             \/ /\ Len(tail) = 3
                /\ <<tail[1], tail[3]>> \in {<<str_check_runs, str_annotations>>,
                                            <<str_check_suites, str_check_runs>>}

\* the call has consulted neither the validator nor the upstream
untouched(call) ==
    /\ call.pc \in {"received", "done"}
    /\ call.ghCalls = 0
    /\ call.sent = << >>

\* C24: a request is sent upstream only for a GET whose path is one of the
\* whitelisted endpoints; a request of any other method is answered 405 and a
\* GET of any other path 404, and in both cases neither the validator nor the
\* upstream is contacted
C24_OnlyWhitelistedGets ==
    \A r \in DOMAIN serving :
        LET call == serving[r] IN
        /\ call.sent # << >> => call.req.method = "GET" /\ onWhitelist(call.req.path)
        /\ call.req.method # "GET" =>
              /\ untouched(call)
              /\ call.pc = "done" => call.resp[1].status = 405
        /\ call.req.method = "GET" /\ ~onWhitelist(call.req.path) =>
              /\ untouched(call)
              /\ call.pc = "done" => call.resp[1].status = 404

\* a POST of a whitelisted path with a valid token has been answered 405
C24_Witness ==
    \E r \in DOMAIN serving :
        /\ serving[r].pc = "done"
        /\ serving[r].req = mkRequest("POST", path_checkRuns, "", str_Bearer \o str_t1)
        /\ serving[r].resp[1].status = 405

\* a GET one element past a whitelisted path has been answered 404
C24_WitnessNotFound ==
    \E r \in DOMAIN serving :
        /\ serving[r].pc = "done"
        /\ serving[r].req.method = "GET"
        /\ serving[r].req.path =
              joinPath(<<str_repos, str_o, str_r, str_commits, <<"s">>, str_check_runs, <<"7">>>>)
        /\ serving[r].resp[1].status = 404

\* a GET of a whitelisted path has been sent upstream
C24_WitnessForwarded ==
    \E r \in DOMAIN serving :
        /\ serving[r].req.method = "GET"
        /\ serving[r].sent # << >>


\* the request carries no token: no Authorization header, or the prefix alone
tokenMissing(req) == req.authorization \in {<< >>, str_Bearer}

\* the request passes the checks that precede the token check
passesGate(req) ==
    /\ req.method = "GET"
    /\ onWhitelist(req.path)
    /\ \/ cfg.AllowedOrgs = << >>
       \/ \E i \in DOMAIN cfg.AllowedOrgs :
             ToLower(cfg.AllowedOrgs[i]) = ToLower(splitSlash(req.path)[3])

\* C25: a request goes upstream only after the validator has reported the
\* client's token as allowed, and it then carries the classic token of the
\* proxy's Config as its credential; a request without a token is
\* answered 401, a denied token 403 and a validation error 500, and none of
\* the three sends anything upstream
C25_UpstreamOnlyIfAllowed ==
    \A r \in DOMAIN serving :
        LET call == serving[r] IN
        /\ call.sent # << >> =>
              /\ call.verdict = "allowed"
              /\ call.sent[1].headers.Authorization = str_Bearer \o cfg.ClassicToken
        /\ call.pc = "upstream" => call.verdict = "allowed"
        /\ passesGate(call.req) /\ tokenMissing(call.req) =>
              /\ untouched(call)
              /\ call.verdict = "none"
              /\ call.pc = "done" => call.resp[1].status = 401
        /\ call.verdict = "denied" =>
              /\ call.pc = "done"
              /\ call.sent = << >>
              /\ call.resp[1].status = 403
        /\ call.verdict = "error" =>
              /\ call.pc = "done"
              /\ call.sent = << >>
              /\ call.resp[1].status = 500

\* a token the validator allowed has had its request sent upstream
C25_Witness ==
    \E r \in DOMAIN serving :
        /\ serving[r].verdict = "allowed"
        /\ serving[r].ghCalls = 1
        /\ serving[r].sent # << >>
        /\ serving[r].got # << >>

\* a request without a token has been answered 401
C25_WitnessMissing ==
    \E r \in DOMAIN serving :
        /\ serving[r].pc = "done"
        /\ serving[r].req.authorization = str_Bearer
        /\ serving[r].resp[1].status = 401

\* a token GitHub denied has been answered 403
C25_WitnessDenied ==
    \E r \in DOMAIN serving :
        /\ serving[r].verdict = "denied"
        /\ serving[r].ghCalls = 1
        /\ serving[r].resp # << >>

\* a failed validation has been answered 500
C25_WitnessError ==
    \E r \in DOMAIN serving :
        /\ serving[r].verdict = "error"
        /\ serving[r].resp # << >>


\* the response to a call as its request, the organization list, the
\* validator's verdict and the upstream's answer determine it; no token of
\* the server enters
responseFor(call) ==
    IF call.got # << >>
    THEN [status |-> call.got[1].status,
          headers |-> {p \in call.got[1].headers :
                          /\ p[2] # ""
                          /\ \E i \in DOMAIN headersToForward : headersToForward[i] = p[1]},
          body |-> call.got[1].body]
    ELSE IF call.sent # << >>
    THEN httpError("upstream error: request failed", 502)
    ELSE IF call.verdict = "error"
    THEN httpError("error validating token: request failed", 500)
    ELSE IF call.verdict = "denied"
    THEN httpError("forbidden: token does not have access to this repository", 403)
    ELSE IF call.verdict = "allowed"
    THEN httpError("internal server error", 500)
    ELSE IF call.req.method # "GET"
    THEN httpError("method not allowed", 405)
    ELSE IF ~onWhitelist(call.req.path)
    THEN httpError("not found", 404)
    ELSE IF ~passesGate(call.req)
    THEN httpError("forbidden: organization not allowed", 403)
    ELSE httpError("unauthorized: missing Authorization header", 401)

\* C26: a response that relays an upstream answer consists of the answer's
\* status code, its body and those of its headers that are on the forward
\* list, which has no Authorization; and every response is the one that the
\* request, the organization list, the validator's verdict and the upstream's
\* answer determine, so that two proxies that differ in the classic token
\* alone answer alike
C26_ClassicTokenStaysInside ==
    \A r \in DOMAIN serving :
        LET call == serving[r] IN
        /\ \A i \in DOMAIN headersToForward : headersToForward[i] # "Authorization"
        /\ call.pc = "done" =>
              /\ Len(call.resp) = 1
              /\ call.resp[1] = responseFor(call)
              /\ call.got # << >> =>
                    /\ call.resp[1].status = call.got[1].status
                    /\ call.resp[1].body = call.got[1].body
                    /\ call.resp[1].headers \subseteq call.got[1].headers
                    /\ \A p \in call.resp[1].headers :
                          \E i \in DOMAIN headersToForward : headersToForward[i] = p[1]

\* an upstream answer with a header outside the forward list and one with an
\* empty value has been relayed under a non-empty classic token
C26_Witness ==
    \E r \in DOMAIN serving :
        /\ serving[r].pc = "done"
        /\ serving[r].got # << >>
        /\ <<"Set-Cookie", "session">> \in serving[r].got[1].headers
        /\ <<"Link", "<next>">> \in serving[r].resp[1].headers
        /\ cfg.ClassicToken = str_ghp_cfg


----------------------------------------------------------------------------
(* Properties of the classic token's source *)

\* C27: every request the serving proxy sends upstream is authenticated with
\* the classic token that the preference order GH_CHECKPROXY_CLASSIC_TOKEN,
\* GH_TOKEN, stored value yields; in particular, with nothing stored, with the
\* token the environment holds
C27_UpstreamUsesPreferredToken ==
    \A r \in DOMAIN serving :
        serving[r].sent # << >> =>
            serving[r].sent[1].headers.Authorization =
                str_Bearer \o GetClassicToken(env.GH_CHECKPROXY_CLASSIC_TOKEN, env.GH_TOKEN,
                                              cfg.ClassicToken)

\* the classic token is in GH_CHECKPROXY_CLASSIC_TOKEN alone and a request
\* has gone upstream with an empty bearer token
C27_FailingInput ==
    /\ cfg.ClassicToken = << >>
    /\ env.GH_CHECKPROXY_CLASSIC_TOKEN = str_ghp_env
    /\ \E r \in DOMAIN serving :
          /\ serving[r].sent # << >>
          /\ serving[r].sent[1].headers.Authorization = str_Bearer


----------------------------------------------------------------------------
(* Properties of the organization list *)

\* the owner named in a whitelisted path
pathOwner(path) == splitSlash(path)[3]

\* owner is on the organization list, letter case apart
onOrgList(owner) ==
    \E i \in DOMAIN cfg.AllowedOrgs : ToUpper(cfg.AllowedOrgs[i]) = ToUpper(owner)

orgForbidden == httpError("forbidden: organization not allowed", 403)

\* C29: a GET of a whitelisted path whose owner is not on a non-empty
\* organization list, letter case apart, is answered 403 without a validation
\* call and without an upstream request; and the organization check rejects
\* nothing else: no owner at all when the list is empty, and no owner that is
\* on the list in another letter case
C29_OrgListGates ==
    \A r \in DOMAIN serving :
        LET call == serving[r]
            listed == onOrgList(pathOwner(call.req.path))
        IN /\ ( /\ call.req.method = "GET"
                /\ onWhitelist(call.req.path)
                /\ cfg.AllowedOrgs # << >>
                /\ ~listed ) =>
                    /\ untouched(call)
                    /\ call.verdict = "none"
                    /\ call.pc = "done" => call.resp[1] = orgForbidden
           /\ ( /\ call.pc = "done"
                /\ call.resp[1] = orgForbidden ) =>
                    /\ cfg.AllowedOrgs # << >>
                    /\ ~listed

\* a repository of an owner outside the list has been refused although the
\* request carried a token
C29_Witness ==
    \E r \in DOMAIN serving :
        /\ serving[r].pc = "done"
        /\ serving[r].req = mkRequest("GET", path_otherOrg, "", str_Bearer \o str_t1)
        /\ cfg.AllowedOrgs = <<str_O>>
        /\ serving[r].resp[1] = orgForbidden

\* an owner spelled in another letter case than on the list has got past the
\* organization check
C29_WitnessOtherCase ==
    \E r \in DOMAIN serving :
        /\ serving[r].req.path = path_statusUpper
        /\ cfg.AllowedOrgs = <<str_x, str_o>>
        /\ serving[r].verdict # "none"

\* with an empty list a request has got past the organization check
C29_WitnessEmptyList ==
    \E r \in DOMAIN serving :
        /\ cfg.AllowedOrgs = << >>
        /\ serving[r].req.path = path_otherOrg
        /\ serving[r].verdict # "none"


----------------------------------------------------------------------------
(* The validator cache under concurrent requests *)

MaxCalls == 2

\* requests that reach Validate: two tokens for one repository, and one of
\* them for another repository
CacheRequests ==
    <<mkRequest("GET", path_checkRuns, "", str_Bearer \o str_t1),
      mkRequest("GET", path_checkRuns, "", str_t2),
      mkRequest("GET", path_otherOrg, "", str_Bearer \o str_t1)>>

\* MaxCalls requests against a proxy that starts with an empty cache; the
\* calls run in any order, so the requests are numbered in one order only
InitCache ==
    /\ clientIdle
    /\ cfg = [AllowedOrgs |-> << >>, ClassicToken |-> str_ghp_cfg]
    /\ env = [GH_CHECKPROXY_CLASSIC_TOKEN |-> << >>, GH_TOKEN |-> << >>]
    /\ ttl \in 0..MaxTTL
    /\ now = 0
    /\ cache = [k \in {} |-> 0]
    /\ \E pick \in [1..MaxCalls -> DOMAIN CacheRequests] :
          /\ \A i, j \in 1..MaxCalls : i <= j => pick[i] <= pick[j]
          /\ serving = [r \in 1..MaxCalls |-> newCall(CacheRequests[pick[r]])]

SpecCache == InitCache /\ [][NextProxy]_vars


\* what Validate returns for a stored or fresh answer
verdictOf(allowed) == IF allowed THEN "allowed" ELSE "denied"

\* the cache holds an entry for the call's token, owner and repository whose
\* expiry lies ahead
hasLiveEntry(call) ==
    /\ keyOf(call) \in DOMAIN cache
    /\ now < cache[keyOf(call)].expires

\* one step of the Validate call of request r
validateStep(r) ==
    LET call == serving[r]
        after == serving'[r]
    IN /\ call.pc = "validate" /\ after # call =>
             IF hasLiveEntry(call)
             THEN /\ after.verdict = verdictOf(cache[keyOf(call)].allowed)
                  /\ after.ghCalls = 0
                  /\ cache' = cache
             ELSE /\ after.pc \in {"delete", "checkGitHub"}
                  /\ after.verdict = "none"
                  /\ cache' = cache
       /\ call.pc = "delete" /\ after # call =>
             /\ after.pc = "checkGitHub"
             /\ keyOf(call) \notin DOMAIN cache'
       /\ call.pc = "checkGitHub" /\ after # call =>
             /\ after.ghCalls = 1
             /\ cache' = cache
             /\ \/ after.pc = "store" /\ after.verdict = "none"
                \/ after.pc = "done" /\ after.verdict = "error"
       /\ call.pc = "store" /\ after # call =>
             /\ after.ghCalls = 1
             /\ after.verdict = verdictOf(call.allowed)
             /\ keyOf(call) \in DOMAIN cache'
             /\ cache'[keyOf(call)] = [allowed |-> call.allowed, expires |-> now + ttl]
             /\ \A k \in DOMAIN cache \ {keyOf(call)} : k \in DOMAIN cache' /\ cache'[k] = cache[k]

\* GitHub is contacted at most once per call, and not at all before the
\* lookup has missed
contactedOnce ==
    \A r \in DOMAIN serving :
        /\ serving[r].ghCalls \in {0, 1}
        /\ serving[r].pc \in {"received", "validate", "delete", "checkGitHub"} =>
              serving[r].ghCalls = 0
        /\ serving[r].pc = "store" => serving[r].ghCalls = 1
        /\ serving[r].verdict = "error" => serving[r].ghCalls = 1

\* C28: a Validate call that finds an entry for its token, owner and
\* repository whose expiry lies ahead returns the stored result without
\* contacting GitHub and leaves the cache alone; a call that finds no entry, or
\* one whose expiry is now or past (which it deletes), contacts GitHub once
\* and, when GitHub answers, stores the answer under its key with expiry
\* now + ttl, now read at the time of storing, while a failed contact stores
\* nothing; no other step serves a result
C28_CachePerKeyWithTTL == []contactedOnce /\ [][\A r \in DOMAIN serving : validateStep(r)]_vars

\* one call has stored GitHub's answer and a later one with the same token
\* for the same repository has been served from the entry
C28_Witness ==
    \E r1, r2 \in DOMAIN serving :
        /\ r1 # r2
        /\ keyOf(serving[r1]) = keyOf(serving[r2])
        /\ serving[r1].ghCalls = 1
        /\ serving[r1].verdict = "allowed"
        /\ serving[r2].ghCalls = 0
        /\ serving[r2].verdict = "allowed"
        /\ serving[r2].pc = "done"

\* a call has found an entry whose expiry has passed
C28_WitnessExpired ==
    \E r \in DOMAIN serving :
        /\ serving[r].pc = "delete"
        /\ keyOf(serving[r]) \in DOMAIN cache
        /\ cache[keyOf(serving[r])].expires < now


----------------------------------------------------------------------------
(* Properties of the exit code of a watch run *)

C31_WitnessPending ==
    /\ returnedOK
    /\ ~watch
    /\ code = pendingExitCode


----------------------------------------------------------------------------
(* Properties of the watch loop's termination *)

\* the run is inside the watch loop
inWatchLoop ==
    /\ watch
    /\ \/ pc \in {"evaluate", "sleep"}
       \/ pc \in {"fetchRuns", "fetchStatus"} /\ sleeps > 0

\* the counts of the cycle just completed end the loop
stopCondition == counts.Pending = 0 \/ (failFast /\ counts.Failed > 0)

C32_WitnessDone ==
    /\ watch
    /\ pc = "exited" /\ err = << >>
    /\ sleeps > 0
    /\ counts.Pending = 0


----------------------------------------------------------------------------
(* Properties of a commit without checks *)

\* the cycle completed last returned no check-run and no status
nothingReported ==
    /\ cycles >= 1
    /\ pc \in {"evaluate", "sleep", "final"} \/ returnedOK
    /\ rawRuns = << >>
    /\ rawStatuses = << >>

\* C33: when a completed cycle returned neither check-runs nor statuses, the
\* list is empty, all counts are zero, the run does not wait and ends with
\* exit code 0; a watch run whose first cycle is of that kind ends after that
\* one cycle without having slept
C33_NoChecksIsAllPassed ==
    nothingReported =>
        /\ checks = << >>
        /\ counts = zeroCounts
        /\ pc # "sleep"
        /\ returnedOK => code = 0
        /\ pc = "exited" => osExit = 0
        /\ sleeps = 0 => cycles = 1 /\ nStatusReq = 1

\* a watch run whose first cycle reported nothing has exited with code 0
C33_Witness ==
    /\ nothingReported
    /\ watch
    /\ pc = "exited" /\ osExit = 0
    /\ cycles = 1 /\ sleeps = 0


----------------------------------------------------------------------------
(* Properties of the exit code against the printed table *)

\* printTable without a terminal: the STATUS column of a check's row
nonTTYStatus(c) == IF c.Bucket = "cancel" THEN "fail" ELSE c.Bucket

\* printTable without a terminal: the STATUS column, one entry per row
nonTTYStatuses(cs) == [i \in DOMAIN cs |-> nonTTYStatus(cs[i])]

\* C34: a run that ends with exit code 0 has printed a final table in which no
\* row has the status "fail"
C34_ExitZeroMeansNoFailRow ==
    returnedOK /\ code = 0 =>
        \A i \in DOMAIN checks : nonTTYStatuses(checks)[i] # "fail"

\* a run whose only check is a cancelled check-run has ended with exit code 0
C34_FailingInput ==
    /\ returnedOK
    /\ pc = "exited" /\ osExit = 0
    /\ Len(checks) = 1
    /\ checks[1].Bucket = "cancel"
    /\ nonTTYStatuses(checks) = <<"fail">>


----------------------------------------------------------------------------
(* Properties of the alternation of fetch cycles and waits *)

\* the next step of the run sends the first request of a fetch cycle
cycleAboutToStart == pc = "fetchRuns" /\ nextPage = 1

\* sleeps and cycles as they stand to each other at every point of a run
sleepsBetweenCycles ==
    /\ cycles = 0 => sleeps = 0
    /\ ~watch => sleeps = 0
    /\ cycleAboutToStart => sleeps = cycles
    /\ cycles >= 1 /\ ~cycleAboutToStart => sleeps = cycles - 1
    /\ pc \in {"returned", "exited"} /\ cycles >= 1 => sleeps = cycles - 1

\* C35: in a run, fetch cycles and sleeps alternate: no sleep precedes the
\* first cycle, each sleep is followed by the start of the next cycle, every
\* later cycle is preceded by exactly one sleep, so that a run that has ended
\* has slept once less than it has started cycles, whether it ended by a
\* break or by a failed fetch; and the step that sleeps sends no request
C35_CyclesAndSleepsAlternate ==
    /\ []sleepsBetweenCycles
    /\ [][ /\ sleeps' # sleeps =>
                /\ pc = "sleep" /\ watch
                /\ sleeps' = sleeps + 1
                /\ cycleAboutToStart'
                /\ nPRReq' = nPRReq /\ nRunsReq' = nRunsReq /\ nStatusReq' = nStatusReq
                /\ lastReq' = lastReq /\ lastResp' = lastResp
                /\ cycles' = cycles
           /\ cycles' # cycles =>
                /\ cycleAboutToStart
                /\ cycles' = cycles + 1
                /\ sleeps' = sleeps
                /\ nRunsReq' = nRunsReq + 1
         ]_vars

\* a watch run has ended after a second cycle and one sleep
C35_Witness ==
    /\ watch
    /\ pc = "exited"
    /\ cycles = 2
    /\ sleeps = 1

\* a watch run has ended in its second cycle on a failed fetch
C35_WitnessFailure ==
    /\ watch
    /\ pc = "exited" /\ err # << >>
    /\ cycles = 2
    /\ sleeps = 1


----------------------------------------------------------------------------
(* Properties of check-runs without a start time *)

\* the zero time.Time of a run that has not started: the least instant
zeroTime == 0

\* C36: if some check-run of a name has a start time, the unified entry of
\* that name is one of the started runs, wherever a run of that name without
\* start time stands in upstream order; the entry lacks a start time only if
\* every run of the name lacks one
C36_UnstartedRunLoses ==
    pc = "aggregated" =>
        \A n \in CheckNames :
            \A k \in fromRuns :
                checks[k].Name = n =>
                    /\ (checks[k].StartedAt = zeroTime) <=>
                          (\A i \in runsNamed(n) : rawRuns[i].StartedAt = zeroTime)
                    /\ \E i \in runsNamed(n) : checks[k].StartedAt = rawRuns[i].StartedAt

\* a queued run without start time stands first in upstream order, ahead of
\* the failed attempt it re-runs, and the entry is the failed attempt
C36_Witness ==
    /\ pc = "aggregated"
    /\ Len(rawRuns) = 2
    /\ rawRuns[1] = mkRun("build", str_in_progress, str_empty, zeroTime)
    /\ rawRuns[2] = mkRun("build", str_completed, str_failure, 1)
    /\ Len(checks) = 1
    /\ checks[1].Bucket = "fail"
    /\ checks[1].StartedAt = 1

\* every run of the name lacks a start time and so does the entry
C36_WitnessAllUnstarted ==
    /\ pc = "aggregated"
    /\ Len(rawRuns) = 2
    /\ \A i \in DOMAIN rawRuns : rawRuns[i].Name = "test" /\ rawRuns[i].StartedAt = zeroTime
    /\ checks[1].StartedAt = zeroTime


----------------------------------------------------------------------------
(* Properties of the aggregation under reordering of the upstream pages *)

\* the orders in which n runs can arrive
Orders(n) == {f \in [1..n -> 1..n] : \A i, j \in 1..n : i # j => f[i] # f[j]}

\* the runs rs arriving in the order f
reordered(rs, f) == [i \in 1..Len(rs) |-> rs[f[i]]]

\* the unified entries as a set, their order in the list apart
entriesOf(cs) == {cs[i] : i \in DOMAIN cs}

\* C37: the outcome of the aggregation does not depend on the order in which
\* the check-runs arrive: for every other order of the same runs the unified
\* entries, the counts and the exit code are the same, also when runs of one
\* name start at the same time in different states
C37_OrderIndependent ==
    pc = "aggregated" =>
        \A f \in Orders(Len(rawRuns)) :
            LET other == aggregate(reordered(rawRuns, f), rawStatuses) IN
            /\ entriesOf(other.checks) = entriesOf(checks)
            /\ other.counts = counts
            /\ exitCodeFor(other.counts) = exitCodeFor(counts)

\* two runs named build started at the same time, the failed one first: the
\* entry is the failed one, and in the other order it is the one in progress
C37_FailingInput ==
    /\ pc = "aggregated"
    /\ rawRuns = <<mkRun("build", str_completed, str_failure, 1),
                   mkRun("build", str_in_progress, str_empty, 1)>>
    /\ rawStatuses = << >>
    /\ exitCodeFor(counts) = 1
    /\ exitCodeFor(aggregate(<<rawRuns[2], rawRuns[1]>>, rawStatuses).counts) = pendingExitCode


----------------------------------------------------------------------------
(* Concurrent Validate calls that meet an expired entry *)

\* MaxCalls requests for one repository against a proxy whose cache holds an
\* entry for the first token that has just expired
InitCacheExpired ==
    /\ clientIdle
    /\ cfg = [AllowedOrgs |-> << >>, ClassicToken |-> str_ghp_cfg]
    /\ env = [GH_CHECKPROXY_CLASSIC_TOKEN |-> << >>, GH_TOKEN |-> << >>]
    /\ ttl \in 1..MaxTTL
    /\ now = 0
    /\ \E a \in BOOLEAN :
          cache = [k \in {cacheKey(str_t1, str_o, str_r)} |-> [allowed |-> a, expires |-> 0]]
    /\ \E pick \in [1..MaxCalls -> 1..2] :
          /\ \A i, j \in 1..MaxCalls : i <= j => pick[i] <= pick[j]
          /\ serving = [r \in 1..MaxCalls |-> newCall(CacheRequests[pick[r]])]

SpecCacheExpired == InitCacheExpired /\ [][NextProxy]_vars

\* C38: whatever the interleaving of concurrent Validate calls, an entry
\* leaves the cache only when that entry itself has expired; an entry whose
\* expiry lies ahead is never removed
C38_OnlyExpiredEntriesRemoved ==
    [][ \A k \in DOMAIN cache :
            k \notin DOMAIN cache' => ~(now < cache[k].expires) ]_vars

\* a call that has loaded the expired entry is about to delete, and the
\* cache meanwhile holds the fresh entry another call has stored under the key
C38_FailingInput ==
    \E r1, r2 \in DOMAIN serving :
        /\ r1 # r2
        /\ keyOf(serving[r1]) = keyOf(serving[r2])
        /\ serving[r1].pc = "delete"
        /\ serving[r2].ghCalls = 1
        /\ serving[r2].verdict \in {"allowed", "denied"}
        /\ keyOf(serving[r1]) \in DOMAIN cache
        /\ now < cache[keyOf(serving[r1])].expires


----------------------------------------------------------------------------
(* Failed validation and the lifetime of cached results *)

\* the call has completed a check with GitHub and holds its result
completedCheck(call) ==
    /\ call.ghCalls = 1
    /\ call.pc \in {"store", "upstream", "done"}
    /\ call.verdict # "error"

\* every entry is the result of a completed check for its key, and it expires
\* no later than one ttl from now
entriesFromCompletedChecks ==
    \A k \in DOMAIN cache :
        /\ cache[k].expires <= now + ttl
        /\ \E r \in DOMAIN serving :
              /\ completedCheck(serving[r])
              /\ serving[r].allowed = cache[k].allowed
              /\ keyOf(serving[r]) = k

\* a call whose check failed was answered with the error and went no further
failedCheckIsAnError ==
    \A r \in DOMAIN serving :
        serving[r].verdict = "error" =>
            /\ serving[r].pc = "done"
            /\ serving[r].resp[1].status = 500
            /\ serving[r].sent = << >>

\* the entry under key k is the same before and after the step
entryKept(k) ==
    /\ k \in DOMAIN cache <=> k \in DOMAIN cache'
    /\ k \in DOMAIN cache => cache'[k] = cache[k]

\* one step, seen from the cache
cacheStep ==
    /\ \A r \in DOMAIN serving :
          serving'[r] # serving[r] =>
              LET key == keyOf(serving[r]) IN
              /\ cache' # cache =>
                    \A k \in (DOMAIN cache \cup DOMAIN cache') \ {key} : entryKept(k)
              /\ serving'[r].verdict = "error" => cache' = cache
              /\ serving[r].pc = "store" =>
                    /\ key \in DOMAIN cache'
                    /\ cache'[key].allowed = serving[r].allowed
              /\ serving[r].pc = "validate" =>
                    IF key \in DOMAIN cache
                    THEN now < cache[key].expires =>
                            /\ serving'[r].allowed = cache[key].allowed
                            /\ serving'[r].verdict \in {"allowed", "denied"}
                            /\ serving'[r].ghCalls = 0
                    ELSE serving'[r].pc = "checkGitHub"
    /\ (\A r \in DOMAIN serving : serving'[r] = serving[r]) => cache' = cache

\* C39: a Validate call whose check with GitHub fails is answered with the
\* error and stores nothing, so the cache holds only results of completed
\* checks and the next call for the key, finding no entry, contacts GitHub; a
\* call changes no entry but the one under its own key; a completed check is
\* stored whether it allowed or denied, and while the entry's expiry, at most
\* one ttl after the store, lies ahead a call is answered with the stored
\* result without asking GitHub
C39_FailuresUncachedResultsCached ==
    [](entriesFromCompletedChecks /\ failedCheckIsAnError) /\ [][cacheStep]_vars

\* a call's check has failed, the cache holds an entry under another key and
\* none under the call's, and a second call for the same key has yet to look
C39_Witness ==
    \E r1, r2 \in DOMAIN serving :
        /\ r1 # r2
        /\ keyOf(serving[r1]) = keyOf(serving[r2])
        /\ serving[r1].verdict = "error"
        /\ serving[r2].pc = "validate"
        /\ keyOf(serving[r1]) \notin DOMAIN cache

\* a failed check has left the entry of another key in place
C39_WitnessOtherKey ==
    \E r1, r2 \in DOMAIN serving :
        /\ keyOf(serving[r1]) # keyOf(serving[r2])
        /\ serving[r1].verdict = "error"
        /\ serving[r2].verdict = "allowed"
        /\ keyOf(serving[r2]) \in DOMAIN cache
        /\ keyOf(serving[r1]) \notin DOMAIN cache

\* a denial has been stored and a later call was denied from the entry
C39_WitnessDenied ==
    \E r1, r2 \in DOMAIN serving :
        /\ r1 # r2
        /\ keyOf(serving[r1]) = keyOf(serving[r2])
        /\ serving[r1].ghCalls = 1
        /\ serving[r1].verdict = "denied"
        /\ serving[r2].ghCalls = 0
        /\ serving[r2].verdict = "denied"
        /\ serving[r2].pc = "done"
        /\ serving[r2].resp[1].status = 403

====
